---- MODULE Spec2Model ----
(***************************************************************************)
(* Model of the UTXO store create pipeline of teranode                     *)
(* (stores/utxo/aerospike/create.go): Store.Create, Store.sendStoreBatch,  *)
(* Store.GetBinsToStore, Store.splitIntoBatches,                           *)
(* Store.StoreTransactionExternally and                                    *)
(* Store.StorePartialTransactionExternally, running against a key/value    *)
(* store with per-key create-only writes and a blob store; of the peer     *)
(* reputation records and the peer registry of the catchup service         *)
(* (package catchup: PeerCatchupMetrics, CatchupMetrics); and of           *)
(* Server.persistBlock of the block persister; of the spend engine and the *)
(* cleanup service provider of the UTXO store; and of the in-memory        *)
(* MockStore of the blockchain store (StoreBlock, GetBlock,                *)
(* GetBlockExists, GetBestBlockHeader, GetBlockHeadersByHeight).           *)
(***************************************************************************)
EXTENDS Integers, Sequences, FiniteSets, TLC

\* ------------------------------------------------------------------------
\* Bounds of the model
\* ------------------------------------------------------------------------

\* number of Create calls issued over a run
NumCalls == 2

\* number of injected store / blob failures over a run
MaxFaults == 1

\* number of process crashes over a run
MaxCrashes == 1

\* number of threads that call the peer registry
NumThreads == 2

\* number of calls each thread makes on the peer registry
MaxRegistryCalls == 1

\* number of calls of methods of peer records over a run
MaxEvents == 3

\* number of calls of methods of the record of one peer over a long run
MaxPeerEvents == 8

\* largest number of subtrees of a block handed to persistBlock
MaxSubtrees == 3

\* largest configured BlockPersisterConcurrency
MaxConcurrency == 5

\* number of concurrent callers of spend
NumSpenders == 2

\* number of outputs of the transaction the spenders work on
NumSpendOutputs == 2

\* number of Store instances that are asked for their cleanup service
NumStores == 2

\* number of calls of GetCleanupService each thread makes
MaxCleanupCalls == 2

\* number of StoreBlock calls on the MockStore over a run
MaxStores == 3

\* width in bits of a block height (uint32 in the source); heights are
\* computed modulo 2^UintBits
UintBits == 2

\* number of distinct block hashes
NumHashes == 2

\* ------------------------------------------------------------------------
\* Settings
\* ------------------------------------------------------------------------

\* s.utxoBatchSize: utxos per record (20,000 in production, scaled down)
utxoBatchSize == 2

\* runs of the unlock tool that may be between their read and their write
NumUnlockers == 1

\* s.settings.GetUtxoStoreBlockHeightRetention()
BlockHeightRetention == 10

\* s.settings.ChainCfgParams.CoinbaseMaturity
CoinbaseMaturity == 100

\* ------------------------------------------------------------------------
\* The transactions handed to Create.  A transaction is identified by its
\* hash; the table below gives what the pipeline reads from it.
\* ------------------------------------------------------------------------

\* tS: one output, fits a record          tM: 2*utxoBatchSize+1 outputs
\* tP: partial (no inputs), utxoBatchSize+1 outputs
\* tF: one output, record too big for the store when stored inline
\* tX: one output, extended size above MaxTxSizeInStoreInBytes
\* tZ: no outputs
TxIds == {"tS", "tM", "tP", "tF", "tX", "tZ"}

\* tB: exactly utxoBatchSize outputs
\* tN: partial, utxoBatchSize+1 outputs of which output 1 is nil
\* tC: a coinbase transaction with one output
\* tH: one output, the computation of its fees and utxo hashes fails
\* tV: one output, its fee does not fit an int
AnyTxIds == TxIds \cup {"tB", "tN", "tC", "tH", "tV"}

\* len(tx.Outputs)
NumOutputs(t) ==
    CASE t = "tM" -> 2 * utxoBatchSize + 1
      [] t = "tP" -> utxoBatchSize + 1
      [] t = "tN" -> utxoBatchSize + 1
      [] t = "tB" -> utxoBatchSize
      [] t = "tZ" -> 0
      [] OTHER    -> 1

\* len(tx.Inputs) > 0
HasInputs(t) == t \notin {"tP", "tN"}

\* utxo.GetFeesAndUtxoHashes(ctx, tx, blockHeight), or utxo.GetUtxoHashes
\* for a transaction without inputs, returns an error
HashesFail(t) == t = "tH"

\* safeconversion.Uint64ToInt(fee) returns an error
FeeOverflows(t) == t = "tV"

\* extendedSize > MaxTxSizeInStoreInBytes
Oversize(t) == t = "tX"

\* txMeta.IsCoinbase as computed by util.TxMetaDataFromTx
IsCoinbaseTx(t) == t = "tC"

\* the transactions spent by the inputs of t
Parents(t) == IF HasInputs(t) /\ ~IsCoinbaseTx(t) THEN {"p1", "p2"} ELSE {}

ParentIds == {"p1", "p2"}

\* block heights passed to Create
BlockHeights == {100}

\* block heights passed to a Create with any options
AnyBlockHeights == {100, 101}

\* utxo.CreateOptions without any option given
NoOptions ==
    [conflicting |-> FALSE, locked |-> FALSE, isCoinbase |-> "nil",
     minedBlockInfos |-> << >>, txID |-> "nil"]

\* the hashes given with the TxID option ("nil": not given); tO is the hash
\* of no transaction of the table
TxIDOptions == {"nil", "tO"}

\* utxo.MinedBlockInfo values given with WithMinedBlockInfo
MinedBlockInfos ==
    LET m1 == [BlockID |-> 7, BlockHeight |-> 90, SubtreeIdx |-> 0]
        m2 == [BlockID |-> 8, BlockHeight |-> 91, SubtreeIdx |-> 3]
    IN  {<< >>, << m1 >>, << m1, m2 >>}

\* utxo.CreateOptions: Conflicting, Locked, the IsCoinbase override ("nil":
\* not given), MinedBlockInfos and TxID
CreateOptions ==
    [conflicting : BOOLEAN, locked : BOOLEAN,
     isCoinbase : {"nil", "true", "false"},
     minedBlockInfos : MinedBlockInfos,
     txID : TxIDOptions]

Calls == 1 .. NumCalls

Min(a, b) == IF a < b THEN a ELSE b

\* ------------------------------------------------------------------------
\* State
\* ------------------------------------------------------------------------
VARIABLES
    kv,                  \* the key/value store: key <<hash, index>> -> bins
    blobs,               \* the blob store: set of <<hash, fileType>>
    conflictingChildren, \* parent hash -> set of conflicting children
    nCalls,              \* number of Create calls issued so far
    item,                \* call -> its BatchStoreItem
    unlock,              \* unlocker -> its run of the unlock tool: the
                         \* main record read and the unlock still to do
    callPc,              \* call -> how far its Create has got: "none", "parents"
                         \* (parents updated, item not put), "put" (item put
                         \* to the batcher), "failed" (returned before the put)
    result,              \* call -> what Create returned ("none": waiting)
    queue,               \* items put to the batcher, not yet in a batch
    batches,             \* the batches handed to sendStoreBatch
    rec,                 \* call -> its batch record (operation and Err)
    ext,                 \* call -> its external-store goroutine
    seen,                \* call -> shard indexes it found existing
    wrote,               \* call -> shard indexes it created
    blobErr,             \* call -> what its put to the blob store returned
    externalizeAll,      \* s.settings.UtxoStore.ExternalizeAllTransactions
    dead,                \* calls killed by a crash
    faults,              \* injected failures so far
    crashes,             \* crashes so far
    cancelled,           \* call -> when its ctx was cancelled ("no": never)
    registry,            \* cm.PeerMetrics: peer id -> record
    heap,                \* the PeerCatchupMetrics records allocated so far
    cmMu,                \* cm.mu: the thread that holds it, 0 when free
    threads,             \* thread -> its call on the registry
    handed,              \* the records GetOrCreatePeerMetrics has returned
    lastEvent,           \* the last call of a method of a record
    nEvents,             \* calls of methods of records so far
    pb,                  \* the run of persistBlock
    utxoRec,             \* the record the spend engine works on
    spends,              \* spender -> its spend call
    cleanupStores,       \* store -> its settings and client
    cleanupServiceInstance, \* the package-level service ("nil": none)
    cleanupServiceError,    \* the package-level error of its creation
    cleanupServiceMutex,    \* the package-level mutex: 0 or its holder
    cleanupCalls,        \* thread -> its call of GetCleanupService
    mock,                \* the MockStore
    storedBlocks,        \* the blocks StoreBlock was called with so far
    hdrCall              \* the run of GetBlockHeadersByHeight

createVars == << kv, blobs, conflictingChildren, nCalls, item, callPc, result,
                 queue,
                 batches, rec, ext, seen, wrote, blobErr, externalizeAll,
                 dead, faults, crashes, unlock >>

catchupVars == << registry, heap, cmMu, threads, handed, lastEvent, nEvents >>

persistVars == << pb >>

spendVars == << utxoRec, spends >>

cleanupVars == << cleanupStores, cleanupServiceInstance, cleanupServiceError,
                 cleanupServiceMutex, cleanupCalls >>

mockVars == << mock, storedBlocks, hdrCall >>

\* the state of the spend engine, of the cleanup service provider and of
\* the MockStore
serviceVars == << spendVars, cleanupVars, mockVars >>

\* what no step of the create pipeline changes: the ctx of a Create is used
\* for tracing only, and the other services have their own state
otherVars == << cancelled, catchupVars, persistVars, serviceVars >>

vars == << createVars, otherVars >>

\* s.settings.UtxoStore.ExternalizeAllTransactions
ExternalizeAllTransactions == externalizeAll

NoItem == [tx |-> "none", txHash |-> "none", blockHeight |-> 0,
           conflicting |-> FALSE,
           locked |-> FALSE, isCoinbase |-> FALSE, blockIDs |-> << >>,
           blockHeights |-> << >>, subtreeIdxs |-> << >>]

NoRecord == [op |-> "none", err |-> "nil", bins |-> << >>]

Unlockers == 1 .. NumUnlockers

\* no run of the unlock tool is between its read and its write: it has
\* not been started, or it has returned
NoUnlock == [pc |-> "idle", txHash |-> "none", numRecords |-> 0]

NoExt == [pc |-> "none", idx |-> 0, bins |-> << >>]

Threads == 1 .. NumThreads

\* a thread that is not in a call on the registry
NoThread == [pc |-> "idle", op |-> "none", recv |-> "none", peer |-> "none",
             ret |-> 0, exists |-> FALSE, calls |-> 0]

\* no method of a record has been called yet
NoEvent == [obj |-> 0, op |-> "none", success |-> FALSE, t |-> 0]

\* persistBlock has not been called
NoPersist == [pc |-> "idle", configured |-> 0, allInOne |-> FALSE,
              concurrency |-> 0, subtrees |-> 0, started |-> 0,
              running |-> 0, finished |-> 0, failed |-> FALSE,
              coinbase |-> FALSE, written |-> FALSE, err |-> "none"]

\* the ctx of no Create has been cancelled
InitCancelled == cancelled = [c \in Calls |-> "no"]

\* NewCatchupMetrics(): an empty registry; no thread is in a call
InitCatchup ==
    /\ registry = << >>
    /\ heap = << >>
    /\ cmMu = 0
    /\ threads = [th \in Threads |-> NoThread]
    /\ handed = {}
    /\ lastEvent = NoEvent
    /\ nEvents = 0

InitPersist == pb = NoPersist

Spenders == 1 .. NumSpenders

\* no transaction has been created for the spend engine
NoUtxoRecord == [created |-> FALSE, utxos |-> << >>, spentUtxos |-> 0,
                 locked |-> FALSE, conflicting |-> FALSE, creating |-> FALSE,
                 frozen |-> {}, isCoinbase |-> FALSE, spendingHeight |-> 0]

\* a spender that has not called spend
NoSpend == [pc |-> "idle", output |-> 0, hash |-> << "none", 0 >>, height |-> 0,
            result |-> "none"]

InitSpend ==
    /\ utxoRec = NoUtxoRecord
    /\ spends = [sp \in Spenders |-> NoSpend]

Stores == 1 .. NumStores

\* a thread that is not in GetCleanupService
NoCleanupCall == [pc |-> "idle", store |-> 0, service |-> "nil",
                  err |-> "nil", calls |-> 0]

\* a Store that has not been constructed
NoStore == [made |-> FALSE, disabled |-> FALSE, client |-> FALSE]

\* no store is made; the singleton is as ResetCleanupServiceForTests
\* leaves it
InitCleanup ==
    /\ cleanupStores = [st \in Stores |-> NoStore]
    /\ cleanupServiceInstance = "nil"
    /\ cleanupServiceError = "nil"
    /\ cleanupServiceMutex = 0
    /\ cleanupCalls = [th \in Threads |-> NoCleanupCall]

\* a nil *model.Block
NilBlock == [hash |-> "nil", height |-> 0]

\* GetBlockHeadersByHeight has not been called
NoHeadersCall == [pc |-> "idle", startHeight |-> 0, endHeight |-> 0,
                  height |-> 0, headers |-> << >>, metas |-> << >>]

\* NewMockStore(): empty maps, no best block
InitMock ==
    /\ mock = [Blocks |-> << >>, BlockExists |-> << >>,
               BlockByHeight |-> << >>, BestBlock |-> NilBlock]
    /\ storedBlocks = << >>
    /\ hdrCall = NoHeadersCall

Init ==
    /\ InitCancelled
    /\ InitCatchup
    /\ InitPersist
    /\ InitSpend
    /\ InitCleanup
    /\ InitMock
    /\ kv = << >>
    /\ blobs = {}
    /\ conflictingChildren = [p \in ParentIds |-> {}]
    /\ nCalls = 0
    /\ item = [c \in Calls |-> NoItem]
    /\ callPc = [c \in Calls |-> "none"]
    /\ unlock = [u \in Unlockers |-> NoUnlock]
    /\ result = [c \in Calls |-> "none"]
    /\ queue = << >>
    /\ batches = << >>
    /\ rec = [c \in Calls |-> NoRecord]
    /\ ext = [c \in Calls |-> NoExt]
    /\ seen = [c \in Calls |-> {}]
    /\ wrote = [c \in Calls |-> {}]
    /\ blobErr = [c \in Calls |-> "none"]
    /\ externalizeAll = FALSE
    /\ dead = {}
    /\ faults = 0
    /\ crashes = 0

\* ------------------------------------------------------------------------
\* Store.splitIntoBatches and Store.GetBinsToStore
\* ------------------------------------------------------------------------

\* an absent entry of the utxos list (nil output or unspendable output)
NilUtxo == << >>

\* tx.Outputs[i] == nil (0-based i)
OutputIsNil(t, i) == t = "tN" /\ i = 1

\* utxo.ShouldStoreOutputAsUTXO(isCoinbase, output, blockHeight)
ShouldStoreOutputAsUTXO(t, i, isCoinbase, blockHeight) == TRUE

\* the transaction id the utxo hashes are computed from: the txHash given
\* to GetUtxoHashes for a transaction without inputs, the id of tx itself
\* in GetFeesAndUtxoHashes, which is not given txHash
UtxoHashId(t, txHash) == IF HasInputs(t) THEN t ELSE txHash

\* the utxos list built by GetBinsToStore: one entry per output, the utxo
\* hash of a stored output and nil otherwise
UtxoList(t, txHash, isCoinbase, blockHeight) ==
    [j \in 1 .. NumOutputs(t) |->
        IF /\ ~OutputIsNil(t, j - 1)
           /\ ShouldStoreOutputAsUTXO(t, j - 1, isCoinbase, blockHeight)
        THEN << UtxoHashId(t, txHash), j - 1 >>
        ELSE NilUtxo]

\* number of non-nil entries of a list of utxos
CountNonNil(us) == Cardinality({j \in 1 .. Len(us) : us[j] # NilUtxo})

\* a split whose number of records is the quotient plus one
splitIntoBatchesQuotient(utxos, commonBins) ==
    LET numBatches == Len(utxos) \div utxoBatchSize + 1
    IN  [k \in 1 .. numBatches |->
            LET start == (k - 1) * utxoBatchSize
                end   == Min(start + utxoBatchSize, Len(utxos))
                batchUtxos == SubSeq(utxos, start + 1, end)
            IN  commonBins @@
                [utxos |-> batchUtxos, recordUtxos |-> CountNonNil(batchUtxos)]]

\* splitIntoBatches: slices of at most utxoBatchSize utxos, each with the
\* common bins, its slice and the count of its non-nil entries
splitIntoBatches(utxos, commonBins) ==
    LET numBatches == (Len(utxos) + utxoBatchSize - 1) \div utxoBatchSize
    IN  [k \in 1 .. numBatches |->
            LET start == (k - 1) * utxoBatchSize
                end   == Min(start + utxoBatchSize, Len(utxos))
                batchUtxos == SubSeq(utxos, start + 1, end)
            IN  commonBins @@
                [utxos |-> batchUtxos, recordUtxos |-> CountNonNil(batchUtxos)]]

\* a spending height that counts the block of the coinbase as the first of
\* the CoinbaseMaturity blocks
SpendingHeightInclusive(blockHeight) == blockHeight + CoinbaseMaturity - 1

\* the spendingHeight bin of a coinbase transaction
SpendingHeight(blockHeight) == blockHeight + CoinbaseMaturity

\* the bins shared by all records of a transaction
CommonBins(t, blockHeight, isCoinbase, isConflicting, isLocked) ==
    [txID |-> t, spentUtxos |-> 0, isCoinbase |-> isCoinbase] @@
    (IF isCoinbase
     THEN [spendingHeight |-> SpendingHeight(blockHeight)]
     ELSE << >>) @@
    [conflicting |-> isConflicting, locked |-> isLocked]

\* the external flag as passed by the caller, whatever the number of records
StoredExternallyFlagOnly(numBatches, external) == external

\* the external flag after GetBinsToStore has split the utxos: a
\* transaction of more than one record is stored externally
StoredExternally(numBatches, external) == numBatches > 1 \/ external

\* every new record counts as unmined
IsUnminedAlways(blockIDs, blockHeights, subtreeIdxs) == TRUE

\* the transaction is stored as unmined: no mined-block info was given
IsUnmined(blockIDs, blockHeights, subtreeIdxs) ==
    Len(blockIDs) = 0 /\ Len(blockHeights) = 0 /\ Len(subtreeIdxs) = 0

\* the bins GetBinsToStore adds to the first record only
PrimaryBins(it, external, numBatches, numUtxos) ==
    [totalExtraRecs |-> numBatches - 1,
     blockIDs |-> it.blockIDs, blockHeights |-> it.blockHeights,
     subtreeIdxs |-> it.subtreeIdxs, totalUtxos |-> numUtxos] @@
    (IF IsUnmined(it.blockIDs, it.blockHeights, it.subtreeIdxs)
     THEN [unminedSince |-> it.blockHeight]
     ELSE << >>) @@
    (IF StoredExternally(numBatches, external)
     THEN [external |-> TRUE]
     ELSE [inputs |-> << "inputs", it.tx >>,
           outputs |-> << "outputs", it.tx >>])

\* GetBinsToStore(tx, blockHeight, blockIDs, blockHeights, subtreeIdxs,
\* external, txHash, isCoinbase, isConflicting, isLocked): a processing
\* error for a transaction without outputs and for one whose fees and utxo
\* hashes cannot be computed, the error of the conversion for a fee that
\* does not fit an int, else the list of bins of each record
GetBinsToStore(it, external) ==
    IF NumOutputs(it.tx) = 0 \/ HashesFail(it.tx)
    THEN [err |-> "Processing", batches |-> << >>]
    ELSE IF HasInputs(it.tx) /\ FeeOverflows(it.tx)
    THEN [err |-> "Conversion", batches |-> << >>]
    ELSE LET common == CommonBins(it.txHash, it.blockHeight, it.isCoinbase,
                                  it.conflicting, it.locked)
             utxos  == UtxoList(it.tx, it.txHash, it.isCoinbase,
                                it.blockHeight)
             split  == splitIntoBatches(utxos, common)
         IN  [err |-> "nil",
              batches |-> [k \in 1 .. Len(split) |->
                  IF k = 1
                  THEN split[1] @@
                       PrimaryBins(it, external, Len(split), Len(utxos))
                  ELSE split[k]]]

\* ------------------------------------------------------------------------
\* The stores and the done channel
\* ------------------------------------------------------------------------

\* uaerospike.CalculateKeySourceInternal(txHash, idx): the key of record idx
\* of a transaction; index 0 is the primary record, keyed by the hash
KeySource(t, idx) == << t, idx >>

\* the records that exist
Exists(k) == k \in DOMAIN kv

\* the Err of a write under RecordExistsAction = CREATE_ONLY
PutErr(k) == IF Exists(k) THEN "KeyExists" ELSE "nil"

\* a write that replaces the bins of an existing record (RecordExistsAction
\* left at its default)
PutBinsReplace(k, bins) ==
    [x \in DOMAIN kv \cup {k} |-> IF x = k THEN bins ELSE kv[x]]

\* the store after a write under RecordExistsAction = CREATE_ONLY
PutBins(k, bins) ==
    IF Exists(k)
    THEN kv
    ELSE [x \in DOMAIN kv \cup {k} |-> IF x = k THEN bins ELSE kv[x]]

\* the server refuses a record above its size limit: tF stored with its
\* inputs and outputs inline
RecordTooBig(t, bins) == t = "tF" /\ "inputs" \in DOMAIN bins

\* every blob is put as an extended transaction
FileTypeAlwaysTx(t) == "TX"

\* the file type of the blob of a transaction: the extended transaction, or
\* the outputs of a partial transaction
FileType(t) == IF HasInputs(t) THEN "TX" ELSE "OUTPUTS"

\* the key of the blob of the transaction of an item
BlobKey(it) == << it.txHash, FileType(it.tx) >>

\* s.externalStore.Set(ctx, txHash, fileType, bytes) without an I/O failure:
\* the put of an absent blob succeeds; the put of a blob that is present
\* succeeds or returns ErrBlobAlreadyExists
BlobSetErrs(it) ==
    IF BlobKey(it) \in blobs THEN {"nil", "BlobAlreadyExists"} ELSE {"nil"}

\* a put to the blob store counts as done only when it returned no error
BlobPutOkStrict(err) == err = "nil"

\* the test the create paths make on the error of a put to the blob store:
\* not (err != nil && !errors.Is(err, errors.ErrBlobAlreadyExists))
BlobPutOk(err) == err \in {"nil", "BlobAlreadyExists"}

\* utils.SafeSend(bItem.done, v): Create takes the first value sent on its
\* channel and closes it; later sends are dropped
SafeSend(res, c, v) == IF res[c] = "none" THEN [res EXCEPT ![c] = v] ELSE res

\* the records written from record 0 up to the last one
ShardOrderForward(n) == [j \in 1 .. n |-> j - 1]

\* the order in which the external paths write the records: from the last
\* record down to record 0
ShardOrder(n) == [j \in 1 .. n |-> n - j]

\* ------------------------------------------------------------------------
\* Store.Create
\* ------------------------------------------------------------------------

\* updateParentConflictingChildren(tx): adds the transaction to the
\* conflicting children of each of its parents
updateParentConflictingChildren(cc, t) ==
    [p \in DOMAIN cc |-> IF p \in Parents(t) THEN cc[p] \cup {t} ELSE cc[p]]

\* the parents' sets when the parents are not updated before the item is put
\* to the batcher
ParentsNotUpdated(t, conflicting) == conflictingChildren

\* the parents' sets at the moment Create puts its item to the batcher
ParentsBeforeStore(t, conflicting) ==
    IF conflicting
    THEN updateParentConflictingChildren(conflictingChildren, t)
    ELSE conflictingChildren

\* isCoinbase of the item: txMeta.IsCoinbase unless the option overrides it
IsCoinbase(t, opts) ==
    IF opts.isCoinbase = "nil" THEN IsCoinbaseTx(t) ELSE opts.isCoinbase = "true"

\* txHash of the item: the TxID option when given, else tx.TxIDChainHash()
TxHash(t, opts) == IF opts.txID = "nil" THEN t ELSE opts.txID

\* the BatchStoreItem built by Create
NewItem(t, blockHeight, opts) ==
    LET m == opts.minedBlockInfos
    IN  [tx |-> t, txHash |-> TxHash(t, opts), blockHeight |-> blockHeight,
         conflicting |-> opts.conflicting, locked |-> opts.locked,
         isCoinbase |-> IsCoinbase(t, opts),
         blockIDs |-> [j \in 1 .. Len(m) |-> m[j].BlockID],
         blockHeights |-> [j \in 1 .. Len(m) |-> m[j].BlockHeight],
         subtreeIdxs |-> [j \in 1 .. Len(m) |-> m[j].SubtreeIdx]]

\* the transactions util.TxMetaDataFromTx returns an error for
NoMetaTxIds == {"tE"}

\* Create(ctx, tx, blockHeight, opts...) of call c up to its first call of
\* the store or of the batcher: a conflicting transaction has its parents
\* updated and the call goes on to build and put its item; any other
\* transaction has its item put to the batcher and the call waits on errCh
CreateItem(c, t, blockHeight, opts) ==
    /\ c = nCalls + 1
    /\ c \in Calls
    /\ item' = [item EXCEPT ![c] = NewItem(t, blockHeight, opts)]
    /\ conflictingChildren' = ParentsBeforeStore(t, opts.conflicting)
    /\ nCalls' = c
    /\ IF opts.conflicting
       THEN /\ callPc' = [callPc EXCEPT ![c] = "parents"]
            /\ UNCHANGED queue
       ELSE /\ callPc' = [callPc EXCEPT ![c] = "put"]
            /\ queue' = Append(queue, c)
    /\ UNCHANGED << kv, blobs, result, batches, rec, ext, seen, wrote, dead,
                    blobErr, externalizeAll, faults, crashes,
                    unlock, otherVars >>

\* s.storeBatcher.Put(item) of a Create whose parents have been updated
PutItem(c) ==
    /\ c \in Calls
    /\ callPc[c] = "parents"
    /\ c \notin dead
    /\ callPc' = [callPc EXCEPT ![c] = "put"]
    /\ queue' = Append(queue, c)
    /\ UNCHANGED << kv, blobs, conflictingChildren, nCalls, item, result,
                    batches, rec, ext, seen, wrote, dead, blobErr,
                    externalizeAll, faults, crashes,
                    unlock, otherVars >>

\* Create with the Conflicting option given or not
Create(c) ==
    \E t \in TxIds, h \in BlockHeights, conflicting \in BOOLEAN :
        CreateItem(c, t, h, [NoOptions EXCEPT !.conflicting = conflicting])

\* the first Create of a run, of any transaction with any options
CreateAny ==
    /\ nCalls = 0
    /\ \E t \in AnyTxIds, h \in AnyBlockHeights, opts \in CreateOptions :
          CreateItem(1, t, h, opts)

\* Create of a transaction util.TxMetaDataFromTx fails for: a processing
\* error is returned, no parent is updated and nothing is put to the batcher
CreateNoMeta(c) ==
    /\ c = nCalls + 1
    /\ c \in Calls
    /\ \E t \in NoMetaTxIds, h \in BlockHeights, conflicting \in BOOLEAN :
          item' = [item EXCEPT ![c] =
                      [NoItem EXCEPT !.tx = t, !.blockHeight = h,
                                     !.conflicting = conflicting]]
    /\ nCalls' = c
    /\ callPc' = [callPc EXCEPT ![c] = "failed"]
    /\ result' = [result EXCEPT ![c] = "Processing"]
    /\ UNCHANGED << kv, blobs, conflictingChildren, queue, batches, rec, ext,
                    seen, wrote, dead, blobErr,
                    externalizeAll, faults, crashes,
                    unlock, otherVars >>

\* Create when updateParentConflictingChildren fails: a processing error is
\* returned and nothing is put to the batcher
CreateParentUpdateFails(c) ==
    /\ c = nCalls + 1
    /\ c \in Calls
    /\ faults < MaxFaults
    /\ \E t \in TxIds, h \in BlockHeights :
          item' = [item EXCEPT ![c] =
                      NewItem(t, h, [NoOptions EXCEPT !.conflicting = TRUE])]
    /\ nCalls' = c
    /\ faults' = faults + 1
    /\ callPc' = [callPc EXCEPT ![c] = "failed"]
    /\ result' = [result EXCEPT ![c] = "Processing"]
    /\ UNCHANGED << kv, blobs, conflictingChildren, queue, batches, rec, ext,
                    seen, wrote, dead, blobErr,
                    externalizeAll, crashes,
                    unlock, otherVars >>

\* the batcher hands the items it holds to sendStoreBatch as one batch; err
\* is what client.BatchOperate returns for the batch as a whole
Flush ==
    /\ queue # << >>
    /\ batches' = Append(batches, [items |-> queue, pc |-> "prepare", i |-> 1, err |-> "none"])
    /\ queue' = << >>
    /\ UNCHANGED << kv, blobs, conflictingChildren, nCalls, item, result, rec,
                    ext, seen, wrote, dead, blobErr,
                    externalizeAll, faults, crashes,
                    callPc, unlock, otherVars >>

\* ------------------------------------------------------------------------
\* Store.sendStoreBatch
\* ------------------------------------------------------------------------

\* the batch after the item at position i of a loop has been handled
Advance(b, nextPc) ==
    IF batches[b].i < Len(batches[b].items)
    THEN [batches EXCEPT ![b].i = @ + 1]
    ELSE [batches EXCEPT ![b].pc = nextPc, ![b].i = 1]

\* an external flag that looks at the size only
IsExternalSizeOnly(t) == Oversize(t)

\* the external flag sendStoreBatch computes before GetBinsToStore
IsExternal(t) == ExternalizeAllTransactions \/ Oversize(t)

\* the operations of the batch write of a record: the bins of the first
\* record and, for a conflicting transaction, the delete-at-height
BatchPutOps(it, bins) ==
    IF it.conflicting
    THEN bins @@ [deleteAtHeight |-> it.blockHeight + BlockHeightRetention]
    ELSE bins

NoOp == [op |-> "noop", err |-> "nil", bins |-> << >>]

\* first loop of sendStoreBatch, one item: the bins are computed; an item
\* without outputs fails; an item of several records is handed to the
\* external path; an external item has its blob put; all others, and the
\* external items whose put succeeded, get a create-only batch write
PrepareItem(b) ==
    /\ b \in 1 .. Len(batches)
    /\ batches[b].pc = "prepare"
    /\ LET c  == batches[b].items[batches[b].i]
           it == item[c]
           external == IsExternal(it.tx)
           g  == GetBinsToStore(it, external)
       IN  \/ /\ g.err # "nil"
              /\ result' = SafeSend(result, c, "Processing")
              /\ rec' = [rec EXCEPT ![c] = NoOp]
              /\ UNCHANGED << blobs, blobErr, ext, faults >>
           \/ /\ g.err = "nil"
              /\ Len(g.batches) > 1
              /\ rec' = [rec EXCEPT ![c] = NoOp]
              /\ ext' = [ext EXCEPT ![c] =
                            [pc |-> "blob", idx |-> 1, bins |-> g.batches]]
              /\ UNCHANGED << blobs, blobErr, result, faults >>
           \/ /\ g.err = "nil"
              /\ Len(g.batches) = 1
              /\ external
              /\ faults < MaxFaults
              /\ faults' = faults + 1
              /\ blobErr' = [blobErr EXCEPT ![c] = "Failed"]
              /\ result' = SafeSend(result, c, "TxExists")
              /\ rec' = [rec EXCEPT ![c] = NoOp]
              /\ UNCHANGED << blobs, ext >>
           \/ /\ g.err = "nil"
              /\ Len(g.batches) = 1
              /\ external
              /\ \E e \in BlobSetErrs(it) :
                    /\ blobErr' = [blobErr EXCEPT ![c] = e]
                    /\ IF BlobPutOk(e)
                       THEN /\ blobs' = blobs \cup {BlobKey(it)}
                            /\ rec' = [rec EXCEPT ![c] =
                                   [op |-> "write", err |-> "nil",
                                    bins |-> BatchPutOps(it, g.batches[1])]]
                            /\ UNCHANGED result
                       ELSE /\ result' = SafeSend(result, c, "TxExists")
                            /\ rec' = [rec EXCEPT ![c] = NoOp]
                            /\ UNCHANGED blobs
              /\ UNCHANGED << ext, faults >>
           \/ /\ g.err = "nil"
              /\ Len(g.batches) = 1
              /\ ~external
              /\ rec' = [rec EXCEPT ![c] =
                            [op |-> "write", err |-> "nil",
                             bins |-> BatchPutOps(it, g.batches[1])]]
              /\ UNCHANGED << blobs, blobErr, result, ext, faults >>
    /\ batches' = Advance(b, "operate")
    /\ UNCHANGED << kv, conflictingChildren, nCalls, item, queue, seen, wrote,
                    dead, externalizeAll, crashes,
                    callPc, unlock, otherVars >>

\* client.BatchOperate, one record: a placeholder read finds no record; a
\* write creates the record unless it exists or is too big, or fails
OperateItem(b) ==
    /\ b \in 1 .. Len(batches)
    /\ batches[b].pc = "operate"
    /\ LET c == batches[b].items[batches[b].i]
           t == item[c].tx
           k == KeySource(item[c].txHash, 0)
       IN  \/ /\ rec[c].op = "noop"
              /\ rec' = [rec EXCEPT ![c].err = "KeyNotFound"]
              /\ UNCHANGED << kv, seen, wrote, faults >>
           \/ /\ rec[c].op = "write"
              /\ ~Exists(k)
              /\ RecordTooBig(t, rec[c].bins)
              /\ rec' = [rec EXCEPT ![c].err = "RecordTooBig"]
              /\ UNCHANGED << kv, seen, wrote, faults >>
           \/ /\ rec[c].op = "write"
              /\ Exists(k) \/ ~RecordTooBig(t, rec[c].bins)
              /\ rec' = [rec EXCEPT ![c].err = PutErr(k)]
              /\ kv' = PutBins(k, rec[c].bins)
              /\ seen' = [seen EXCEPT ![c] = IF Exists(k) THEN @ \cup {0} ELSE @]
              /\ wrote' = [wrote EXCEPT ![c] = IF Exists(k) THEN @ ELSE @ \cup {0}]
              /\ UNCHANGED faults
           \/ /\ rec[c].op = "write"
              /\ faults < MaxFaults
              /\ faults' = faults + 1
              /\ \E e \in {"AerospikeError", "OtherError"} :
                    rec' = [rec EXCEPT ![c].err = e]
              /\ UNCHANGED << kv, seen, wrote >>
    /\ batches' = Advance(b, "results")
    /\ UNCHANGED << blobs, conflictingChildren, nCalls, item, result, queue,
                    ext, dead, blobErr,
                    externalizeAll, crashes,
                    callPc, unlock, otherVars >>

\* what the second loop of sendStoreBatch sends to the caller of an item,
\* "none" when it sends nothing
RecordSend(c) ==
    CASE rec[c].err = "nil" ->
            IF NumOutputs(item[c].tx) <= utxoBatchSize THEN "ok" ELSE "none"
      [] rec[c].err = "KeyExists" -> "TxExists"
      [] rec[c].err = "RecordTooBig" ->
            IF GetBinsToStore(item[c], TRUE).err # "nil"
            THEN "Processing" ELSE "none"
      [] rec[c].err = "KeyNotFound" -> "none"
      [] rec[c].err = "AerospikeError" -> "Storage"
      [] OTHER -> "none"

\* a second loop that hands no item to the external path
NotPromoted(c) == FALSE

\* the items the second loop of sendStoreBatch hands to the external path
Promoted(c) ==
    /\ rec[c].err = "RecordTooBig"
    /\ GetBinsToStore(item[c], TRUE).err = "nil"

\* the errors BatchOperate can return for the batch as a whole without a
\* failure of the store: none, or the KEY_EXISTS of one of its records
BatchErrs(b) ==
    {"nil"} \cup
    (IF \E j \in 1 .. Len(batches[b].items) :
            rec[batches[b].items[j]].err = "KeyExists"
     THEN {"KeyExists"} ELSE {})

\* client.BatchOperate has returned batchErr: with an error the items are
\* sent that error first, else the Err of each record is looked at
HandleResults(b, batchErr) ==
    batches' = [batches EXCEPT
                   ![b].pc = IF batchErr = "nil" THEN "records" ELSE "senderr",
                   ![b].i = 1,
                   ![b].err = batchErr]

\* BatchOperate returns without a failure of the store
Results(b) ==
    /\ b \in 1 .. Len(batches)
    /\ batches[b].pc = "results"
    /\ \E batchErr \in BatchErrs(b) : HandleResults(b, batchErr)
    /\ UNCHANGED << kv, blobs, conflictingChildren, nCalls, item, result,
                    queue, rec, ext, seen, wrote, dead, blobErr,
                    externalizeAll, faults, crashes,
                    callPc, unlock, otherVars >>

\* BatchOperate returns an error for the batch as a whole (a timeout, a
\* node that cannot be reached)
ResultsBatchFails(b) ==
    /\ b \in 1 .. Len(batches)
    /\ batches[b].pc = "results"
    /\ faults < MaxFaults
    /\ faults' = faults + 1
    /\ HandleResults(b, "BatchError")
    /\ UNCHANGED << kv, blobs, conflictingChildren, nCalls, item, result,
                    queue, rec, ext, seen, wrote, dead, blobErr,
                    externalizeAll, crashes,
                    callPc, unlock, otherVars >>

\* what the loops over the batch send for an error of BatchOperate: a
\* KEY_EXISTS of the batch is sent as TxExists
BatchErrSend(batchErr) ==
    IF batchErr = "KeyExists" THEN "TxExists" ELSE "BatchError"

\* the error of BatchOperate is sent to one item of the batch; after the
\* last item sendStoreBatch returns for KEY_EXISTS and goes on to the
\* records for any other error
SendBatchErr(b) ==
    /\ b \in 1 .. Len(batches)
    /\ batches[b].pc = "senderr"
    /\ LET c == batches[b].items[batches[b].i]
       IN  result' = SafeSend(result, c, BatchErrSend(batches[b].err))
    /\ batches' = Advance(b, IF batches[b].err = "KeyExists"
                             THEN "done" ELSE "records")
    /\ UNCHANGED << kv, blobs, conflictingChildren, nCalls, item, queue, rec,
                    ext, seen, wrote, dead, blobErr,
                    externalizeAll, faults, crashes,
                    callPc, unlock, otherVars >>

\* second loop of sendStoreBatch, one record: the caller is sent what the
\* Err of the record stands for, or the item is handed to the external path
HandleRecord(b) ==
    /\ b \in 1 .. Len(batches)
    /\ batches[b].pc = "records"
    /\ LET c == batches[b].items[batches[b].i]
       IN  /\ result' = IF RecordSend(c) = "none"
                        THEN result
                        ELSE SafeSend(result, c, RecordSend(c))
           /\ ext' = IF Promoted(c)
                     THEN [ext EXCEPT ![c] =
                             [pc |-> "blob", idx |-> 1,
                              bins |-> GetBinsToStore(item[c], TRUE).batches]]
                     ELSE ext
    /\ batches' = Advance(b, "done")
    /\ UNCHANGED << kv, blobs, conflictingChildren, nCalls, item, queue, rec,
                    seen, wrote, dead, blobErr,
                    externalizeAll, faults, crashes,
                    callPc, unlock, otherVars >>

\* ------------------------------------------------------------------------
\* Store.StoreTransactionExternally and
\* Store.StorePartialTransactionExternally
\* ------------------------------------------------------------------------

\* the put of the blob (the extended transaction, or the outputs of a
\* partial transaction) succeeds or finds the blob: the records follow
ExtBlob(c) ==
    /\ ext[c].pc = "blob"
    /\ \E e \in BlobSetErrs(item[c]) :
          /\ blobErr' = [blobErr EXCEPT ![c] = e]
          /\ IF BlobPutOk(e)
             THEN /\ blobs' = blobs \cup {BlobKey(item[c])}
                  /\ ext' = [ext EXCEPT ![c].pc = "put", ![c].idx = 1]
                  /\ UNCHANGED result
             ELSE /\ result' = SafeSend(result, c, "TxExists")
                  /\ ext' = [ext EXCEPT ![c].pc = "done"]
                  /\ UNCHANGED blobs
    /\ UNCHANGED << kv, conflictingChildren, nCalls, item, queue, batches,
                    rec, seen, wrote, dead, externalizeAll, faults, crashes,
                    callPc, unlock, otherVars >>

\* the put of the blob fails: the caller is sent an error and no record is
\* written
ExtBlobFails(c) ==
    /\ ext[c].pc = "blob"
    /\ faults < MaxFaults
    /\ faults' = faults + 1
    /\ blobErr' = [blobErr EXCEPT ![c] = "Failed"]
    /\ result' = SafeSend(result, c, "TxExists")
    /\ ext' = [ext EXCEPT ![c].pc = "done"]
    /\ UNCHANGED << kv, blobs, conflictingChildren, nCalls, item, queue,
                    batches, rec, seen, wrote, dead, externalizeAll, crashes,
                    callPc, unlock, otherVars >>

\* a loop over the records that treats KEY_EXISTS as a failure
PutStopsOnKeyExists(err) == err = "nil"

\* the loop over the records goes on after a put that returned err: after
\* a put without error and after KEY_EXISTS (the record was written by a
\* previous attempt)
PutContinues(err) == err \in {"nil", "KeyExists"}

\* one iteration of the loop over the records: a create-only put of the
\* bins of one record; the loop is left after the last record
ExtPut(c) ==
    /\ ext[c].pc = "put"
    /\ LET n    == Len(ext[c].bins)
           idx  == ShardOrder(n)[ext[c].idx]
           k    == KeySource(item[c].txHash, idx)
           err  == PutErr(k)
           last == ext[c].idx = n
       IN  /\ kv' = PutBins(k, ext[c].bins[idx + 1])
           /\ seen' = [seen EXCEPT ![c] = IF err = "KeyExists"
                                          THEN @ \cup {idx} ELSE @]
           /\ wrote' = [wrote EXCEPT ![c] = IF err = "KeyExists"
                                            THEN @ ELSE @ \cup {idx}]
           /\ ext' = IF ~PutContinues(err)
                     THEN [ext EXCEPT ![c].pc = "done"]
                     ELSE IF last
                          THEN [ext EXCEPT ![c].pc = "send"]
                          ELSE [ext EXCEPT ![c].idx = @ + 1]
           /\ result' = IF ~PutContinues(err)
                        THEN SafeSend(result, c, "Processing")
                        ELSE result
    /\ UNCHANGED << blobs, conflictingChildren, nCalls, item, queue, batches,
                    rec, dead, blobErr,
                    externalizeAll, faults, crashes,
                    callPc, unlock, otherVars >>

\* utils.SafeSend(bItem.done, nil) after the loop over the records
ExtSend(c) ==
    /\ ext[c].pc = "send"
    /\ result' = SafeSend(result, c, "ok")
    /\ ext' = [ext EXCEPT ![c].pc = "done"]
    /\ UNCHANGED << kv, blobs, conflictingChildren, nCalls, item, queue,
                    batches, rec, seen, wrote, dead, blobErr,
                    externalizeAll, faults, crashes,
                    callPc, unlock, otherVars >>

\* a put fails with an error other than KEY_EXISTS: the caller is sent a
\* processing error and the loop is left
ExtPutFails(c) ==
    /\ ext[c].pc = "put"
    /\ faults < MaxFaults
    /\ faults' = faults + 1
    /\ result' = SafeSend(result, c, "Processing")
    /\ ext' = [ext EXCEPT ![c].pc = "done"]
    /\ UNCHANGED << kv, blobs, conflictingChildren, nCalls, item, queue,
                    batches, rec, seen, wrote, dead, blobErr,
                    externalizeAll, crashes,
                    callPc, unlock, otherVars >>

\* ------------------------------------------------------------------------
\* Crash of the process: the callers, the batcher, the batches and the
\* external goroutines stop where they are; the stores keep their content
\* ------------------------------------------------------------------------

Running(c) == ext[c].pc \in {"blob", "put", "send"}

Busy(b) ==
    batches[b].pc \in {"prepare", "operate", "results", "senderr", "records"}

Crash ==
    /\ crashes < MaxCrashes
    /\ \/ queue # << >>
       \/ \E c \in Calls : callPc[c] = "parents" /\ c \notin dead
       \/ \E b \in 1 .. Len(batches) : Busy(b)
       \/ \E c \in Calls : Running(c)
    /\ crashes' = crashes + 1
    /\ dead' = dead \cup {c \in 1 .. nCalls : result[c] = "none"}
    /\ queue' = << >>
    /\ batches' = [b \in 1 .. Len(batches) |->
                     IF Busy(b) THEN [batches[b] EXCEPT !.pc = "crashed"]
                     ELSE batches[b]]
    /\ ext' = [c \in Calls |->
                 IF Running(c) THEN [ext[c] EXCEPT !.pc = "crashed"]
                 ELSE ext[c]]
    /\ UNCHANGED << kv, blobs, conflictingChildren, nCalls, item, result, rec,
                    seen, wrote, blobErr, externalizeAll, faults,
                    callPc, unlock, otherVars >>

\* ------------------------------------------------------------------------
\* Specification
\* ------------------------------------------------------------------------

Next ==
    \/ \E c \in Calls : Create(c)
    \/ \E c \in Calls : PutItem(c)
    \/ \E c \in Calls : CreateNoMeta(c)
    \/ \E c \in Calls : CreateParentUpdateFails(c)
    \/ Flush
    \/ \E b \in 1 .. NumCalls : PrepareItem(b)
    \/ \E b \in 1 .. NumCalls : OperateItem(b)
    \/ \E b \in 1 .. NumCalls : Results(b)
    \/ \E b \in 1 .. NumCalls : ResultsBatchFails(b)
    \/ \E b \in 1 .. NumCalls : SendBatchErr(b)
    \/ \E b \in 1 .. NumCalls : HandleRecord(b)
    \/ \E c \in Calls : ExtBlob(c)
    \/ \E c \in Calls : ExtBlobFails(c)
    \/ \E c \in Calls : ExtPut(c)
    \/ \E c \in Calls : ExtSend(c)
    \/ \E c \in Calls : ExtPutFails(c)
    \/ Crash

Spec == Init /\ [][Next]_vars

\* ------------------------------------------------------------------------
\* One Create of any transaction with any options, under either value of
\* the ExternalizeAllTransactions setting, followed through the pipeline
\* ------------------------------------------------------------------------

\* the caller of Create cancels the ctx it passed, or its deadline expires,
\* before the call or while the call waits for its result; Create passes ctx
\* to the tracer only and sendStoreBatch works with s.ctx, so nothing else
\* changes
Cancel(c) ==
    /\ c \in Calls
    /\ c <= nCalls + 1
    /\ result[c] = "none"
    /\ c \notin dead
    /\ cancelled[c] = "no"
    /\ cancelled' = [cancelled EXCEPT ![c] =
                        IF 0 \in wrote[c] THEN "late" ELSE "early"]
    /\ UNCHANGED << createVars, catchupVars, persistVars, serviceVars >>

\* a bin of a record as the unlock tool reads it: the default when the
\* record does not carry the bin
BinOr(r, name, default) == IF name \in DOMAIN r THEN r[name] ELSE default

\* the keys of the records aeroStore.UnlockTransaction is asked to unlock:
\* the main record and numRecords - 1 extra records
UnlockKeys(txHash, numRecords) ==
    { KeySource(txHash, idx) : idx \in 0 .. numRecords - 1 }

\* the store after the locked bin of the records of keys has been cleared
Unlocked(keys) ==
    [k \in DOMAIN kv |->
        IF k \in keys THEN [kv[k] EXCEPT !.locked = FALSE] ELSE kv[k]]

\* unlocktx.UnlockTransaction(logger, settings, txHash) up to the call of
\* the store: the main record is read; the tool returns when the store
\* cannot be reached or the read fails (first disjunct), when the record
\* is not found and when it is not locked, else it goes on with
\* numRecords = 1 + totalExtraRecs.  A run that returns leaves no state.
UnlockTransaction(u, txHash) ==
    /\ unlock[u].pc = "idle"
    /\ LET mainKey == KeySource(txHash, 0)
       IN  \/ UNCHANGED unlock
           \/ /\ ~Exists(mainKey)
              /\ UNCHANGED unlock
           \/ /\ Exists(mainKey)
              /\ ~BinOr(kv[mainKey], "locked", FALSE)
              /\ UNCHANGED unlock
           \/ /\ Exists(mainKey)
              /\ BinOr(kv[mainKey], "locked", FALSE)
              /\ unlock' = [unlock EXCEPT ![u] =
                     [pc |-> "unlock", txHash |-> txHash,
                      numRecords |->
                          1 + BinOr(kv[mainKey], "totalExtraRecs", 0)]]
    /\ UNCHANGED << kv, blobs, conflictingChildren, nCalls, item, result,
                    queue, batches, rec, ext, seen, wrote, dead, blobErr,
                    externalizeAll, faults, crashes,
                    callPc, otherVars >>

\* aeroStore.UnlockTransaction(ctx, txHash, numRecords) returns nil: the
\* locked bin of the numRecords records is cleared, and the tool returns
UnlockRecords(u) ==
    /\ unlock[u].pc = "unlock"
    /\ kv' = Unlocked(UnlockKeys(unlock[u].txHash, unlock[u].numRecords))
    /\ unlock' = [unlock EXCEPT ![u] = NoUnlock]
    /\ UNCHANGED << blobs, conflictingChildren, nCalls, item, result, queue,
                    batches, rec, ext, seen, wrote, dead, blobErr,
                    externalizeAll, faults, crashes,
                    callPc, otherVars >>

\* aeroStore.UnlockTransaction returns an error: any of the records may
\* have been unlocked before it, and the tool returns
UnlockRecordsFails(u) ==
    /\ unlock[u].pc = "unlock"
    /\ \E keys \in SUBSET UnlockKeys(unlock[u].txHash, unlock[u].numRecords) :
          kv' = Unlocked(keys)
    /\ unlock' = [unlock EXCEPT ![u] = NoUnlock]
    /\ UNCHANGED << blobs, conflictingChildren, nCalls, item, result, queue,
                    batches, rec, ext, seen, wrote, dead, blobErr,
                    externalizeAll, faults, crashes,
                    callPc, otherVars >>

\* the hashes the unlock tool is started with: that of a transaction of
\* three records and the hash of the TxID option, under which any
\* transaction may be stored
UnlockHashes == {"tM", "tO"}

InitAny ==
    /\ InitCancelled
    /\ InitCatchup
    /\ InitPersist
    /\ InitSpend
    /\ InitCleanup
    /\ InitMock
    /\ kv = << >>
    /\ blobs = {}
    /\ conflictingChildren = [p \in ParentIds |-> {}]
    /\ nCalls = 0
    /\ item = [c \in Calls |-> NoItem]
    /\ callPc = [c \in Calls |-> "none"]
    /\ unlock = [u \in Unlockers |-> NoUnlock]
    /\ result = [c \in Calls |-> "none"]
    /\ queue = << >>
    /\ batches = << >>
    /\ rec = [c \in Calls |-> NoRecord]
    /\ ext = [c \in Calls |-> NoExt]
    /\ seen = [c \in Calls |-> {}]
    /\ wrote = [c \in Calls |-> {}]
    /\ blobErr = [c \in Calls |-> "none"]
    /\ externalizeAll \in BOOLEAN
    /\ dead = {}
    /\ faults = 0
    /\ crashes = 0

NextAny ==
    \/ CreateAny
    \/ nCalls = 0 /\ CreateNoMeta(1)
    \/ \E c \in Calls : PutItem(c)
    \/ Flush
    \/ \E b \in 1 .. NumCalls : PrepareItem(b)
    \/ \E b \in 1 .. NumCalls : OperateItem(b)
    \/ \E b \in 1 .. NumCalls : Results(b)
    \/ \E b \in 1 .. NumCalls : ResultsBatchFails(b)
    \/ \E b \in 1 .. NumCalls : SendBatchErr(b)
    \/ \E b \in 1 .. NumCalls : HandleRecord(b)
    \/ \E c \in Calls : ExtBlob(c)
    \/ \E c \in Calls : ExtBlobFails(c)
    \/ \E c \in Calls : ExtPut(c)
    \/ \E c \in Calls : ExtSend(c)
    \/ \E c \in Calls : ExtPutFails(c)
    \/ \E c \in Calls : Cancel(c)
    \/ \E u \in Unlockers, txHash \in UnlockHashes :
          UnlockTransaction(u, txHash)
    \/ \E u \in Unlockers : UnlockRecords(u)
    \/ \E u \in Unlockers : UnlockRecordsFails(u)
    \/ Crash

SpecAny == InitAny /\ [][NextAny]_vars

\* ------------------------------------------------------------------------
\* Package catchup: PeerCatchupMetrics.  Each method holds pm.mu from its
\* first statement to its return, so a call is one step.
\* ------------------------------------------------------------------------

PeerIds == {"A", "B"}

\* the response times passed to UpdateReputation
ResponseTimes == {0, 4, 10}

\* &PeerCatchupMetrics{}: every field has its zero value
ZeroMetrics ==
    [PeerID |-> "", SuccessfulRequests |-> 0, FailedRequests |-> 0,
     TotalRequests |-> 0, AverageResponseTime |-> 0, LastResponseTime |-> 0,
     ReputationScore |-> 0, MaliciousAttempts |-> 0,
     ConsecutiveFailures |-> 0, LastSuccessTime |-> 0, LastFailureTime |-> 0,
     LastRequestTime |-> 0, TotalHeadersFetched |-> 0]

\* &PeerCatchupMetrics{PeerID: peerID, ReputationScore: 50.0}
NewPeerMetrics(peerID) ==
    [ZeroMetrics EXCEPT !.PeerID = peerID, !.ReputationScore = 50]

\* time.Now(): a clock that advances with every call
Now == nEvents + 1

\* integer division of Go: the quotient is truncated toward zero
GoDiv(a, b) ==
    IF (a >= 0) = (b > 0) THEN (IF a >= 0 THEN a ELSE -a) \div (IF b > 0 THEN b ELSE -b)
    ELSE -((IF a >= 0 THEN a ELSE -a) \div (IF b > 0 THEN b ELSE -b))

\* pm.RecordSuccess()
RecordSuccess(pm) ==
    [pm EXCEPT !.SuccessfulRequests = @ + 1,
               !.TotalRequests = @ + 1,
               !.ConsecutiveFailures = 0,
               !.LastSuccessTime = Now,
               !.ReputationScore = IF @ + 10 > 100 THEN 100 ELSE @ + 10]

\* pm.RecordFailure()
RecordFailure(pm) ==
    [pm EXCEPT !.FailedRequests = @ + 1,
               !.TotalRequests = @ + 1,
               !.ConsecutiveFailures = @ + 1,
               !.LastFailureTime = Now,
               !.ReputationScore = IF @ > 0 THEN @ - 2 ELSE @]

\* a malicious attempt that is counted but leaves the score alone
RecordMaliciousAttemptCountOnly(pm) ==
    [pm EXCEPT !.MaliciousAttempts = @ + 1]

\* pm.RecordMaliciousAttempt()
RecordMaliciousAttempt(pm) ==
    [pm EXCEPT !.MaliciousAttempts = @ + 1, !.ReputationScore = 0]

\* trust that looks at the score only
IsTrustedByScore(pm) == pm.ReputationScore > 50

\* pm.IsTrusted()
IsTrusted(pm) == pm.ReputationScore > 50 /\ pm.MaliciousAttempts = 0

\* pm.IsMalicious()
IsMalicious(pm) == pm.ReputationScore < 10 /\ pm.MaliciousAttempts > 0

\* pm.IsBad()
IsBad(pm) == pm.ReputationScore < 10

\* the mean of the average and the response time, whatever the count
WeightedAverageUnweighted(avg, n, responseTime) ==
    GoDiv(avg + responseTime, 2)

\* the weighted average of UpdateReputation, for an average that is set
WeightedAverage(avg, n, responseTime) ==
    GoDiv(avg * n + responseTime, n + 1)

\* pm.UpdateReputation(success, responseTime)
UpdateReputation(pm, success, responseTime) ==
    IF success
    THEN [pm EXCEPT
            !.ReputationScore = IF @ < 100 THEN @ + 1 ELSE @,
            !.ConsecutiveFailures = 0,
            !.LastResponseTime = responseTime,
            !.AverageResponseTime =
                IF @ = 0 THEN responseTime
                ELSE WeightedAverage(@, pm.SuccessfulRequests, responseTime)]
    ELSE [pm EXCEPT
            !.ReputationScore = IF @ > 0 THEN @ - 2 ELSE @,
            !.ConsecutiveFailures = @ + 1]

\* the records that callers hold
HandedObjs == {h.obj : h \in handed}

\* a caller calls method op of record o, of a run of at most limit calls
MethodCallWithin(limit, o, op, success, t, pm) ==
    /\ nEvents < limit
    /\ o \in HandedObjs
    /\ heap' = [heap EXCEPT ![o] = pm]
    /\ lastEvent' = [obj |-> o, op |-> op, success |-> success, t |-> t]
    /\ nEvents' = nEvents + 1
    /\ UNCHANGED << registry, cmMu, threads, handed, createVars, cancelled,
                    persistVars, serviceVars >>

\* a caller calls method op of record o
MethodCall(o, op, success, t, pm) ==
    MethodCallWithin(MaxEvents, o, op, success, t, pm)

CallRecordSuccess(o) ==
    MethodCall(o, "RecordSuccess", TRUE, 0, RecordSuccess(heap[o]))

CallRecordFailure(o) ==
    MethodCall(o, "RecordFailure", FALSE, 0, RecordFailure(heap[o]))

CallRecordMaliciousAttempt(o) ==
    MethodCall(o, "RecordMaliciousAttempt", FALSE, 0,
               RecordMaliciousAttempt(heap[o]))

CallUpdateReputation(o) ==
    \E success \in BOOLEAN, t \in ResponseTimes :
        MethodCall(o, "UpdateReputation", success, t,
                   UpdateReputation(heap[o], success, t))

\* ------------------------------------------------------------------------
\* Package catchup: CatchupMetrics, the peer registry.  cm.mu is taken at
\* the start of a call and released by the deferred Unlock at its return.
\* ------------------------------------------------------------------------

\* a lock that any thread can take at any time
CanLockAlways(th) == TRUE

\* cm.mu.Lock() returns: no thread holds the lock
CanLock(th) == cmMu = 0

\* the thread can start a call
Idle(th) == threads[th].pc = "idle" /\ threads[th].calls < MaxRegistryCalls

\* GetOrCreatePeerMetrics on a nil *CatchupMetrics: a record of zero
\* values that is not registered
GetOrCreateOnNil(th) ==
    /\ Idle(th)
    /\ \E p \in PeerIds :
          /\ heap' = Append(heap, ZeroMetrics)
          /\ handed' = handed \cup
                 {[peer |-> p, obj |-> Len(heap) + 1, recv |-> "nil",
                   th |-> th]}
    /\ threads' = [threads EXCEPT ![th].calls = @ + 1]
    /\ UNCHANGED << registry, cmMu, lastEvent, nEvents, createVars,
                    cancelled, persistVars,
                    serviceVars >>

\* cm.mu.Lock() of GetOrCreatePeerMetrics or GetPeerMetrics
MuLock(th) ==
    /\ Idle(th)
    /\ CanLock(th)
    /\ cmMu' = th
    /\ \E op \in {"GetOrCreatePeerMetrics", "GetPeerMetrics"}, p \in PeerIds :
          threads' = [threads EXCEPT ![th] =
                         [@ EXCEPT !.pc = "locked", !.op = op, !.recv = "cm",
                                   !.peer = p]]
    /\ UNCHANGED << registry, heap, handed, lastEvent, nEvents, createVars,
                    cancelled, persistVars,
                    serviceVars >>

\* metric, exists := cm.PeerMetrics[peerID] of GetOrCreatePeerMetrics
GetOrCreateLookup(th) ==
    /\ threads[th].pc = "locked"
    /\ threads[th].op = "GetOrCreatePeerMetrics"
    /\ threads' = [threads EXCEPT ![th] =
           IF threads[th].peer \in DOMAIN registry
           THEN [@ EXCEPT !.pc = "unlock", !.exists = TRUE,
                          !.ret = registry[threads[th].peer]]
           ELSE [@ EXCEPT !.pc = "create", !.exists = FALSE]]
    /\ UNCHANGED << registry, heap, cmMu, handed, lastEvent, nEvents,
                    createVars, cancelled, persistVars,
                    serviceVars >>

\* the new record is allocated and put into cm.PeerMetrics
GetOrCreateInsert(th) ==
    /\ threads[th].pc = "create"
    /\ heap' = Append(heap, NewPeerMetrics(threads[th].peer))
    /\ registry' = [p \in DOMAIN registry \cup {threads[th].peer} |->
                       IF p = threads[th].peer THEN Len(heap) + 1
                       ELSE registry[p]]
    /\ threads' = [threads EXCEPT ![th].pc = "unlock",
                                  ![th].ret = Len(heap) + 1]
    /\ UNCHANGED << cmMu, handed, lastEvent, nEvents, createVars, cancelled,
                    persistVars, serviceVars >>

\* metric, exists := cm.PeerMetrics[peerID] of GetPeerMetrics
GetPeerMetrics(th) ==
    /\ threads[th].pc = "locked"
    /\ threads[th].op = "GetPeerMetrics"
    /\ threads' = [threads EXCEPT ![th] =
           IF threads[th].peer \in DOMAIN registry
           THEN [@ EXCEPT !.pc = "unlock", !.exists = TRUE,
                          !.ret = registry[threads[th].peer]]
           ELSE [@ EXCEPT !.pc = "unlock", !.exists = FALSE, !.ret = 0]]
    /\ UNCHANGED << registry, heap, cmMu, handed, lastEvent, nEvents,
                    createVars, cancelled, persistVars,
                    serviceVars >>

\* the deferred cm.mu.Unlock() and the return; the caller of
\* GetOrCreatePeerMetrics now holds the record
MuUnlock(th) ==
    /\ threads[th].pc = "unlock"
    /\ cmMu' = 0
    /\ handed' = IF threads[th].op = "GetOrCreatePeerMetrics"
                 THEN handed \cup {[peer |-> threads[th].peer,
                                    obj |-> threads[th].ret, recv |-> "cm",
                                    th |-> th]}
                 ELSE handed
    /\ threads' = [threads EXCEPT ![th] =
                      [NoThread EXCEPT !.calls = threads[th].calls + 1]]
    /\ UNCHANGED << registry, heap, lastEvent, nEvents, createVars,
                    cancelled, persistVars,
                    serviceVars >>

NextCatchup ==
    \/ \E th \in Threads : GetOrCreateOnNil(th)
    \/ \E th \in Threads : MuLock(th)
    \/ \E th \in Threads : GetOrCreateLookup(th)
    \/ \E th \in Threads : GetOrCreateInsert(th)
    \/ \E th \in Threads : GetPeerMetrics(th)
    \/ \E th \in Threads : MuUnlock(th)
    \/ \E o \in 1 .. Len(heap) : CallRecordSuccess(o)
    \/ \E o \in 1 .. Len(heap) : CallRecordFailure(o)
    \/ \E o \in 1 .. Len(heap) : CallRecordMaliciousAttempt(o)
    \/ \E o \in 1 .. Len(heap) : CallUpdateReputation(o)

SpecCatchup == Init /\ [][NextCatchup]_vars

\* the long run of one peer: one thread gets the record of the peer from
\* the registry, then successes, failures and malicious attempts are
\* recorded on it
PeerRecordSuccess(o) ==
    MethodCallWithin(MaxPeerEvents, o, "RecordSuccess", TRUE, 0,
                     RecordSuccess(heap[o]))

PeerRecordFailure(o) ==
    MethodCallWithin(MaxPeerEvents, o, "RecordFailure", FALSE, 0,
                     RecordFailure(heap[o]))

PeerRecordMaliciousAttempt(o) ==
    MethodCallWithin(MaxPeerEvents, o, "RecordMaliciousAttempt", FALSE, 0,
                     RecordMaliciousAttempt(heap[o]))

NextPeer ==
    \/ MuLock(1)
    \/ GetOrCreateLookup(1)
    \/ GetOrCreateInsert(1)
    \/ GetPeerMetrics(1)
    \/ MuUnlock(1)
    \/ \E o \in 1 .. Len(heap) : PeerRecordSuccess(o)
    \/ \E o \in 1 .. Len(heap) : PeerRecordFailure(o)
    \/ \E o \in 1 .. Len(heap) : PeerRecordMaliciousAttempt(o)

SpecPeer == Init /\ [][NextPeer]_vars

\* ------------------------------------------------------------------------
\* Package blockpersister: Server.persistBlock
\* ------------------------------------------------------------------------

\* the values of settings.Block.BlockPersisterConcurrency
ConfiguredConcurrency == -1 .. MaxConcurrency

\* the halved concurrency without its minimum
ConcurrencyUnclamped(configured, allInOne) ==
    IF allInOne THEN GoDiv(configured, 2) ELSE configured

\* the concurrency persistBlock works with
Concurrency(configured, allInOne) ==
    IF allInOne
    THEN (IF GoDiv(configured, 2) < 1 THEN 1 ELSE GoDiv(configured, 2))
    ELSE configured

\* persistBlock is called with the bytes of a block; NewBlockFromBytes
\* parses them or fails
PersistBlock ==
    /\ pb.pc = "idle"
    /\ \/ \E configured \in ConfiguredConcurrency, allInOne \in BOOLEAN,
             n \in 0 .. MaxSubtrees :
             pb' = [pb EXCEPT !.pc = "parsed", !.configured = configured,
                              !.allInOne = allInOne, !.subtrees = n]
       \/ pb' = [pb EXCEPT !.pc = "done",
                           !.err = "ProcessingError: block from bytes"]
    /\ UNCHANGED << createVars, cancelled, catchupVars, serviceVars >>

\* concurrency := u.settings.Block.BlockPersisterConcurrency, halved in
\* all-in-one mode
SetConcurrency ==
    /\ pb.pc = "parsed"
    /\ pb' = [pb EXCEPT !.pc = "utxoset",
                        !.concurrency = Concurrency(pb.configured, pb.allInOne)]
    /\ UNCHANGED << createVars, cancelled, catchupVars, serviceVars >>

\* utxopersister.NewUTXOSet
NewUTXOSet ==
    /\ pb.pc = "utxoset"
    /\ \/ pb' = [pb EXCEPT !.pc = "process"]
       \/ pb' = [pb EXCEPT !.pc = "done",
                           !.err = "ProcessingError: utxo diff"]
    /\ UNCHANGED << createVars, cancelled, catchupVars, serviceVars >>

\* a block without subtrees: utxoDiff.ProcessTx(block.CoinbaseTx)
ProcessCoinbase ==
    /\ pb.pc = "process"
    /\ pb.subtrees = 0
    /\ \/ pb' = [pb EXCEPT !.pc = "write", !.coinbase = TRUE]
       \/ pb' = [pb EXCEPT !.pc = "done",
                           !.err = "ProcessingError: coinbase tx"]
    /\ UNCHANGED << createVars, cancelled, catchupVars, serviceVars >>

\* g.Go: the limit of the errgroup lets another goroutine start; a
\* negative limit is no limit
CanGo == pb.concurrency < 0 \/ pb.running < pb.concurrency

\* g.Go(func() error { ... }) for the next subtree
GoSubtree ==
    /\ pb.pc = "process"
    /\ pb.started < pb.subtrees
    /\ CanGo
    /\ pb' = [pb EXCEPT !.started = @ + 1, !.running = @ + 1]
    /\ UNCHANGED << createVars, cancelled, catchupVars, serviceVars >>

\* u.ProcessSubtree returns in one of the goroutines
ProcessSubtree ==
    /\ pb.pc = "process"
    /\ pb.running > 0
    /\ \E ok \in BOOLEAN :
          pb' = [pb EXCEPT !.running = @ - 1, !.finished = @ + 1,
                           !.failed = @ \/ ~ok]
    /\ UNCHANGED << createVars, cancelled, catchupVars, serviceVars >>

\* a wait that drops the error of the goroutines
WaitDropsError ==
    /\ pb.pc = "process"
    /\ pb.subtrees > 0
    /\ pb.started = pb.subtrees
    /\ pb.running = 0
    /\ pb' = [pb EXCEPT !.pc = "write"]
    /\ UNCHANGED << createVars, cancelled, catchupVars, serviceVars >>

\* g.Wait() returns when every goroutine has returned
Wait ==
    /\ pb.pc = "process"
    /\ pb.subtrees > 0
    /\ pb.started = pb.subtrees
    /\ pb.running = 0
    /\ pb' = IF pb.failed
             THEN [pb EXCEPT !.pc = "done", !.err = "ProcessSubtree error"]
             ELSE [pb EXCEPT !.pc = "write"]
    /\ UNCHANGED << createVars, cancelled, catchupVars, serviceVars >>

\* filestorer.NewFileStorer and storer.Write(blockBytes)
WriteBlock ==
    /\ pb.pc = "write"
    /\ \/ pb' = [pb EXCEPT !.pc = "done", !.written = TRUE]
       \/ pb' = [pb EXCEPT !.pc = "done",
                           !.err = "StorageError: block file"]
    /\ UNCHANGED << createVars, cancelled, catchupVars, serviceVars >>

NextPersist ==
    \/ PersistBlock
    \/ SetConcurrency
    \/ NewUTXOSet
    \/ ProcessCoinbase
    \/ GoSubtree
    \/ ProcessSubtree
    \/ Wait
    \/ WriteBlock

SpecPersist == Init /\ [][NextPersist]_vars

\* ------------------------------------------------------------------------
\* The spend engine (specification section 4.D).  A spend is one scripted
\* update of the record, atomic by the per-key atomicity of the store.
\* ------------------------------------------------------------------------

SpendIndexes == 1 .. NumSpendOutputs

\* the UTXO hash of output i of the transaction
UtxoHash(i) == << "utxo", i >>

\* the sentinel of a consumed output
NullUtxo == "null"

\* the block height the coinbase transaction was created at, and the
\* heights of the spending blocks
SpendHeights == {SpendingHeight(100) - 1, SpendingHeight(100)}

\* a transaction is created and its record becomes visible to the spend
\* engine, with the flags and the frozen outputs it has at that time
CreateSpendable ==
    /\ ~utxoRec.created
    /\ \E locked \in BOOLEAN, conflicting \in BOOLEAN, creating \in BOOLEAN,
          frozen \in {{}, {1}}, isCoinbase \in BOOLEAN :
          utxoRec' = [created |-> TRUE,
                      utxos |-> [i \in SpendIndexes |-> UtxoHash(i)],
                      spentUtxos |-> 0,
                      locked |-> locked, conflicting |-> conflicting,
                      creating |-> creating, frozen |-> frozen,
                      isCoinbase |-> isCoinbase,
                      spendingHeight |->
                          IF isCoinbase THEN SpendingHeight(100) ELSE 0]
    /\ UNCHANGED << spends, createVars, cancelled, catchupVars, persistVars,
                    cleanupVars, mockVars >>

\* step 1 of the script: the refusal of a record that cannot be spent from,
\* "nil" when there is none
RecordRefusal(r, i, height) ==
    IF r.locked THEN "TxLocked"
    ELSE IF r.conflicting THEN "TxConflicting"
    ELSE IF r.creating THEN "UtxoNotFound"
    ELSE IF i \in r.frozen THEN "UtxoFrozen"
    ELSE IF r.isCoinbase /\ height < r.spendingHeight THEN "CoinbaseImmature"
    ELSE "nil"

\* step 2 of the script: the entry of the output is compared with the
\* expected hash
OutputRefusal(r, i, hash) ==
    IF r.utxos[i] = NullUtxo THEN "UtxoAlreadySpent"
    ELSE IF r.utxos[i] # hash THEN "UtxoNotFound"
    ELSE "nil"

\* a spend that leaves the entry of the output in place
MarkSpentKeepsHash(r, i) ==
    [r EXCEPT !.spentUtxos = @ + 1]

\* step 3 of the script: the entry becomes the null sentinel and
\* spent_utxos is incremented
MarkSpent(r, i) ==
    [r EXCEPT !.utxos[i] = NullUtxo, !.spentUtxos = @ + 1]

\* spend(tx_hash, [i]) is called with an expected hash at a block height
SpendCall(sp) ==
    /\ utxoRec.created
    /\ spends[sp].pc = "idle"
    /\ \E i \in SpendIndexes, height \in SpendHeights :
          \E hash \in {UtxoHash(i), << "utxo", 0 >>} :
              spends' = [spends EXCEPT ![sp] =
                            [pc |-> "sent", output |-> i, hash |-> hash,
                             height |-> height, result |-> "none"]]
    /\ UNCHANGED << utxoRec, createVars, cancelled, catchupVars, persistVars,
                    cleanupVars, mockVars >>

\* the store runs the script of a spend on the record
SpendScript(sp) ==
    /\ spends[sp].pc = "sent"
    /\ LET c == spends[sp]
           e1 == RecordRefusal(utxoRec, c.output, c.height)
           e2 == OutputRefusal(utxoRec, c.output, c.hash)
       IN  IF e1 # "nil"
           THEN /\ spends' = [spends EXCEPT ![sp].pc = "done",
                                            ![sp].result = e1]
                /\ UNCHANGED utxoRec
           ELSE IF e2 # "nil"
           THEN /\ spends' = [spends EXCEPT ![sp].pc = "done",
                                            ![sp].result = e2]
                /\ UNCHANGED utxoRec
           ELSE /\ spends' = [spends EXCEPT ![sp].pc = "done",
                                            ![sp].result = "ok"]
                /\ utxoRec' = MarkSpent(utxoRec, c.output)
    /\ UNCHANGED << createVars, cancelled, catchupVars, persistVars,
                    cleanupVars, mockVars >>

NextSpend ==
    \/ CreateSpendable
    \/ \E sp \in Spenders : SpendCall(sp)
    \/ \E sp \in Spenders : SpendScript(sp)

SpecSpend == Init /\ [][NextSpend]_vars

\* ------------------------------------------------------------------------
\* Store.GetCleanupService (cleanup provider), as cleanup_provider_test.go
\* shows it: the service is a singleton of the package, held with its
\* error in cleanupServiceInstance and cleanupServiceError and guarded by
\* cleanupServiceMutex, whatever the store that asks for it
\* ------------------------------------------------------------------------

\* store := &Store{settings: ..., client: ...}
NewStore(st) ==
    /\ ~cleanupStores[st].made
    /\ \E disabled \in BOOLEAN, client \in BOOLEAN :
          cleanupStores' = [cleanupStores EXCEPT ![st] =
              [made |-> TRUE, disabled |-> disabled, client |-> client]]
    /\ UNCHANGED << cleanupServiceInstance, cleanupServiceError,
                    cleanupServiceMutex, cleanupCalls, createVars, cancelled,
                    catchupVars, persistVars, spendVars, mockVars >>

\* the cleanup service is made for a store: it needs the client
NewCleanupService(client) ==
    IF client THEN [service |-> "service", err |-> "nil"]
    ELSE [service |-> "nil", err |-> "client is required"]

\* store.GetCleanupService() is called: with DisableDAHCleaner set it
\* returns nil, nil at once
GetCleanupService(th) ==
    /\ cleanupCalls[th].pc \in {"idle", "done"}
    /\ cleanupCalls[th].calls < MaxCleanupCalls
    /\ \E st \in Stores :
          /\ cleanupStores[st].made
          /\ cleanupCalls' = [cleanupCalls EXCEPT ![th] =
                 [pc |-> IF cleanupStores[st].disabled THEN "done"
                         ELSE "lock",
                  store |-> st, service |-> "nil", err |-> "nil",
                  calls |-> @.calls + 1]]
    /\ UNCHANGED << cleanupStores, cleanupServiceInstance, cleanupServiceError,
                    cleanupServiceMutex, createVars, cancelled, catchupVars,
                    persistVars, spendVars, mockVars >>

\* cleanupServiceMutex.Lock()
CleanupLock(th) ==
    /\ cleanupCalls[th].pc = "lock"
    /\ cleanupServiceMutex = 0
    /\ cleanupServiceMutex' = th
    /\ cleanupCalls' = [cleanupCalls EXCEPT ![th].pc = "locked"]
    /\ UNCHANGED << cleanupStores, cleanupServiceInstance, cleanupServiceError,
                    createVars, cancelled, catchupVars, persistVars,
                    spendVars, mockVars >>

\* the singleton is returned with its error if there is one, whichever
\* store made it; else the service is made for the calling store and the
\* service and the error of the creation are kept in the package
CleanupCreate(th) ==
    /\ cleanupCalls[th].pc = "locked"
    /\ LET st == cleanupCalls[th].store
           r  == IF cleanupServiceInstance # "nil"
                 THEN [service |-> cleanupServiceInstance,
                       err |-> cleanupServiceError]
                 ELSE NewCleanupService(cleanupStores[st].client)
       IN  /\ cleanupServiceInstance' = r.service
           /\ cleanupServiceError' = r.err
           /\ cleanupCalls' = [cleanupCalls EXCEPT ![th].pc = "unlock",
                                                   ![th].service = r.service,
                                                   ![th].err = r.err]
    /\ UNCHANGED << cleanupStores, cleanupServiceMutex, createVars, cancelled,
                    catchupVars, persistVars, spendVars, mockVars >>

\* cleanupServiceMutex.Unlock() and the call returns
CleanupUnlock(th) ==
    /\ cleanupCalls[th].pc = "unlock"
    /\ cleanupServiceMutex' = 0
    /\ cleanupCalls' = [cleanupCalls EXCEPT ![th].pc = "done"]
    /\ UNCHANGED << cleanupStores, cleanupServiceInstance, cleanupServiceError,
                    createVars, cancelled, catchupVars, persistVars,
                    spendVars, mockVars >>

\* ResetCleanupServiceForTests(): the singleton is emptied
ResetCleanupServiceForTests ==
    /\ cleanupServiceMutex = 0
    /\ cleanupServiceInstance # "nil" \/ cleanupServiceError # "nil"
    /\ cleanupServiceInstance' = "nil"
    /\ cleanupServiceError' = "nil"
    /\ UNCHANGED << cleanupStores, cleanupServiceMutex, cleanupCalls,
                    createVars, cancelled, catchupVars, persistVars,
                    spendVars, mockVars >>

NextCleanup ==
    \/ \E st \in Stores : NewStore(st)
    \/ \E th \in Threads : GetCleanupService(th)
    \/ \E th \in Threads : CleanupLock(th)
    \/ \E th \in Threads : CleanupCreate(th)
    \/ \E th \in Threads : CleanupUnlock(th)
    \/ ResetCleanupServiceForTests

SpecCleanup == Init /\ [][NextCleanup]_vars

\* ------------------------------------------------------------------------
\* MockStore (in-memory blockchain store)
\* ------------------------------------------------------------------------

\* the largest height (math.MaxUint32 at 32 bits)
MaxUint == 2 ^ UintBits - 1

\* the values of a height
Heights == 0 .. MaxUint

\* height++ on an unsigned integer
IncHeight(height) == (height + 1) % (2 ^ UintBits)

\* the block hashes
Hashes == { << "block", n >> : n \in 1 .. NumHashes }

\* the blocks a test can hand to StoreBlock
MockBlocks == [hash : Hashes, height : Heights]

\* m[k] = v on a Go map
MapSet(m, k, v) == [x \in DOMAIN m \cup {k} |-> IF x = k THEN v ELSE m[x]]

\* m.BestBlock = block whatever the heights
NewBestBlockLatest(best, block) == block

\* if m.BestBlock == nil || block.Height > m.BestBlock.Height
NewBestBlock(best, block) ==
    IF best = NilBlock \/ block.height > best.height THEN block ELSE best

\* MockStore.GetBlock
GetBlock(blockHash) ==
    IF blockHash \in DOMAIN mock.Blocks
    THEN [block |-> mock.Blocks[blockHash],
          height |-> mock.Blocks[blockHash].height, err |-> "nil"]
    ELSE [block |-> NilBlock, height |-> 0, err |-> "ErrBlockNotFound"]

\* MockStore.GetBlockByHeight
GetBlockByHeight(height) ==
    IF height \in DOMAIN mock.BlockByHeight
    THEN [block |-> mock.BlockByHeight[height], err |-> "nil"]
    ELSE [block |-> NilBlock, err |-> "ErrBlockNotFound"]

\* MockStore.GetBlockExists
GetBlockExists(blockHash) ==
    IF blockHash \in DOMAIN mock.BlockExists
    THEN mock.BlockExists[blockHash]
    ELSE FALSE

\* MockStore.GetBestBlockHeader
GetBestBlockHeader ==
    IF mock.BestBlock = NilBlock
    THEN [header |-> NilBlock.hash, height |-> 0, err |-> "BlockNotFound"]
    ELSE [header |-> mock.BestBlock.hash,
          height |-> mock.BestBlock.height, err |-> "nil"]

\* MockStore.StoreBlock: under m.mu.Lock(), which waits for the read lock
\* of a running GetBlockHeadersByHeight
StoreBlock(block) ==
    /\ Len(storedBlocks) < MaxStores
    /\ hdrCall.pc # "loop"
    /\ mock' = [Blocks |-> MapSet(mock.Blocks, block.hash, block),
                BlockByHeight |->
                    MapSet(mock.BlockByHeight, block.height, block),
                BlockExists |-> MapSet(mock.BlockExists, block.hash, TRUE),
                BestBlock |-> NewBestBlock(mock.BestBlock, block)]
    /\ storedBlocks' = Append(storedBlocks, block)
    /\ UNCHANGED << hdrCall, createVars, cancelled, catchupVars,
                    persistVars, spendVars, cleanupVars >>

\* MockStore.GetBlockHeadersByHeight up to the first test of the loop
\* condition: a reverse range returns two empty lists
GetBlockHeadersByHeight(startHeight, endHeight) ==
    /\ hdrCall.pc \in {"idle", "done"}
    /\ hdrCall' = [pc |-> IF startHeight > endHeight THEN "done" ELSE "loop",
                   startHeight |-> startHeight, endHeight |-> endHeight,
                   height |-> startHeight,
                   headers |-> << >>, metas |-> << >>]
    /\ UNCHANGED << mock, storedBlocks, createVars, cancelled, catchupVars,
                    persistVars, spendVars, cleanupVars >>

\* append(headers, block.Header)
AppendHeader(list, x) == Append(list, x)

\* one iteration of the loop: the body at hdrCall.height, height++, and the
\* test height <= endHeight.  A run is followed as long as its lists hold at
\* most MaxStores entries, which a single pass over the heights cannot
\* exceed.
HeadersLoop ==
    /\ hdrCall.pc = "loop"
    /\ LET height == hdrCall.height
           found == GetBlockByHeight(height)
           next == IncHeight(height)
       IN  /\ found.err = "nil" => Len(hdrCall.headers) <= MaxStores
           /\ hdrCall' =
                [hdrCall EXCEPT
                   !.headers = IF found.err = "nil"
                               THEN AppendHeader(@, found.block.hash)
                               ELSE @,
                   !.metas = IF found.err = "nil"
                             THEN AppendHeader(@, found.block.height)
                             ELSE @,
                   !.height = next,
                   !.pc = IF next <= hdrCall.endHeight THEN "loop" ELSE "done"]
    /\ UNCHANGED << mock, storedBlocks, createVars, cancelled, catchupVars,
                    persistVars, spendVars, cleanupVars >>

NextMock ==
    \/ \E block \in MockBlocks : StoreBlock(block)
    \/ \E startHeight \in Heights, endHeight \in Heights :
          GetBlockHeadersByHeight(startHeight, endHeight)
    \/ HeadersLoop

SpecMock == Init /\ [][NextMock]_vars

\* the goroutine that runs the loop keeps being scheduled
SpecMockFair == Init /\ [][NextMock]_vars /\ WF_vars(HeadersLoop)

\* ------------------------------------------------------------------------
\* Properties
\* ------------------------------------------------------------------------

Started == 1 .. nCalls

\* the key of the primary record of a transaction
PrimaryKey(t) == KeySource(t, 0)

\* the indexes of the extension records of a transaction that exist
ExtensionIndexes(t) == {k[2] : k \in {x \in DOMAIN kv : x[1] = t /\ x[2] > 0}}

\* sendStoreBatch has handled the item of a call, and no external goroutine
\* of the call is running
Settled(c) ==
    /\ \E b \in 1 .. Len(batches) :
          /\ batches[b].pc = "done"
          /\ \E j \in 1 .. Len(batches[b].items) : batches[b].items[j] = c
    /\ ext[c].pc \in {"none", "done"}

\* C1: of the Create calls for one transaction hash, at most one returns
\* success and every other one returns TxExists (no store failure involved).
C1_SingleWinner ==
    \A c1 \in Started, c2 \in Started :
        ( /\ c1 # c2
          /\ item[c1].tx = item[c2].tx
          /\ faults = 0
          /\ result[c1] = "ok"
          /\ result[c2] # "none" )
        => result[c2] = "TxExists"

\* C2: a Create whose write of the primary record met KEY_EXISTS returns
\* TxExists, on the batch path and on the external paths (no store failure
\* involved).
C2_KeyExistsYieldsTxExists ==
    \A c \in Started :
        (faults = 0 /\ 0 \in seen[c] /\ result[c] # "none")
        => result[c] = "TxExists"

\* C3: every write of the create paths is create-only: a record that exists
\* is never changed or removed by a step.
C3_CreateOnly ==
    [][\A k \in DOMAIN kv : k \in DOMAIN kv' /\ kv'[k] = kv[k]]_vars

\* C3 witness: a call met an existing primary record whose conflicting bin
\* differs from the one the call wanted to write.
C3_Witness ==
    \E c \in Started :
        /\ 0 \in seen[c]
        /\ kv[PrimaryKey(item[c].txHash)].conflicting # item[c].conflicting

\* C4: a transaction whose primary record exists has exactly the extension
\* records 1 .. total_extra_recs.
C4_PrimaryImpliesExtensions ==
    \A t \in TxIds :
        Exists(PrimaryKey(t))
        => ExtensionIndexes(t) = 1 .. kv[PrimaryKey(t)].totalExtraRecs

\* C4 witness: after a crash that left extension records only, a later call
\* wrote the primary record of a transaction of several records.
C4_Witness ==
    \E c \in Started, d \in dead :
        /\ item[c].tx = item[d].tx
        /\ wrote[d] # {}
        /\ 0 \in wrote[c]
        /\ kv[PrimaryKey(item[c].txHash)].totalExtraRecs > 1

\* C5: a retry on the external path that met KEY_EXISTS on some records but
\* not on the primary record, and no store failure, returns success with all
\* records of the transaction present.
C5_RecoveryCompletes ==
    \A c \in Started :
        ( /\ faults = 0
          /\ ext[c].pc = "done"
          /\ seen[c] # {}
          /\ 0 \notin seen[c] )
        => /\ result[c] = "ok"
           /\ \A i \in 0 .. Len(ext[c].bins) - 1 :
                 Exists(KeySource(item[c].txHash, i))

\* C5 witness: an attempt was interrupted by a crash after it wrote some
\* records; the retry found them, wrote the others and the primary record,
\* and returned success.
C5_Witness ==
    \E c \in Started, d \in dead :
        /\ item[c].tx = item[d].tx
        /\ wrote[d] # {}
        /\ wrote[d] = seen[c]
        /\ 0 \in wrote[c]
        /\ Cardinality(wrote[c]) > 1
        /\ ext[c].pc = "done"
        /\ result[c] = "ok"

\* C6: while the primary record of a transaction is absent, each of its
\* extension records carries creating = true.
C6_CreatingUntilPrimary ==
    \A k \in DOMAIN kv :
        (k[2] > 0 /\ ~Exists(PrimaryKey(k[1])))
        => /\ "creating" \in DOMAIN kv[k]
           /\ kv[k].creating = TRUE

\* C7: a primary record with conflicting = true exists only when each parent
\* of the transaction has it among its conflicting children.
C7_ParentsBeforeChild ==
    \A t \in TxIds :
        (Exists(PrimaryKey(t)) /\ kv[PrimaryKey(t)].conflicting)
        => \A p \in Parents(t) : t \in conflictingChildren[p]

\* C7 witness: a conflicting transaction with parents was stored through the
\* RecordTooBig fallback.
C7_Witness ==
    \E c \in Started :
        /\ item[c].conflicting
        /\ Parents(item[c].tx) # {}
        /\ rec[c].err = "RecordTooBig"
        /\ 0 \in wrote[c]
        /\ kv[PrimaryKey(item[c].txHash)].conflicting

\* C8: the result of an item of a batch depends on its own record only: an
\* item whose write succeeded is sent success, and an item handed to the
\* external path gets no result from the batch.
C8_OwnOutcomeOnly ==
    \A c \in Started :
        /\ (rec[c].op = "write" /\ rec[c].err = "nil" /\ result[c] # "none")
           => result[c] = "ok"
        /\ Running(c) => result[c] = "none"

\* C9: Create returns success only when the primary record exists, and a
\* call that returned an error other than TxExists has not written the
\* primary record.
C9_NoPartialSuccess ==
    \A c \in Started :
        /\ result[c] = "ok" => Exists(PrimaryKey(item[c].txHash))
        /\ result[c] \notin {"none", "ok", "TxExists"} => 0 \notin wrote[c]

\* C10: once the batch and the external goroutine of a call are finished,
\* the caller has received a result, whatever the outcome of its record.
C10_AlwaysAnswered ==
    \A c \in Started :
        (c \notin dead /\ Settled(c)) => result[c] # "none"

\* what BatchOperate returned for the batch an item was in ("none": the
\* batch has not reached that point)
BatchErrOf(c) ==
    IF \E b \in 1 .. Len(batches) :
          \E j \in 1 .. Len(batches[b].items) : batches[b].items[j] = c
    THEN LET b == CHOOSE x \in 1 .. Len(batches) :
                     \E j \in 1 .. Len(batches[x].items) :
                        batches[x].items[j] = c
         IN  batches[b].err
    ELSE "none"

\* an item whose batch write was rejected with RecordTooBig, in a batch
\* for which BatchOperate returned no error and with no store failure, is
\* stored by the external path: its blob is in the blob store, its primary
\* record has external = true and no inputs or outputs, and its caller got
\* the result of the external write, which is success
TooBigPromotedWithoutBatchError ==
    \A c \in Started :
        ( /\ faults = 0
          /\ c \notin dead
          /\ rec[c].err = "RecordTooBig"
          /\ BatchErrOf(c) = "nil"
          /\ Settled(c) )
        => /\ BlobKey(item[c]) \in blobs
           /\ Exists(PrimaryKey(item[c].txHash))
           /\ "external" \in DOMAIN kv[PrimaryKey(item[c].txHash)]
           /\ "inputs" \notin DOMAIN kv[PrimaryKey(item[c].txHash)]
           /\ "outputs" \notin DOMAIN kv[PrimaryKey(item[c].txHash)]
           /\ result[c] = "ok"

\* C11: the caller of an item whose batch write was rejected with
\* RecordTooBig is answered by the external write only: when it has its
\* result, the external path has run to its end, and a success means that
\* the blob is in the blob store and the primary record has external = true
\* and no inputs or outputs.
C11_TooBigPromoted ==
    \A c \in Started :
        ( /\ c \notin dead
          /\ rec[c].err = "RecordTooBig"
          /\ result[c] # "none" )
        => /\ ext[c].pc = "done"
           /\ result[c] = "ok"
              => /\ BlobKey(item[c]) \in blobs
                 /\ Exists(PrimaryKey(item[c].txHash))
                 /\ "external" \in DOMAIN kv[PrimaryKey(item[c].txHash)]
                 /\ "inputs" \notin DOMAIN kv[PrimaryKey(item[c].txHash)]
                 /\ "outputs" \notin DOMAIN kv[PrimaryKey(item[c].txHash)]

\* the caller of an item rejected with RecordTooBig has the error
\* BatchOperate returned for the batch, and the external path writes its
\* primary record all the same
TooBigAnsweredByBatchError ==
    \E c \in Started :
        /\ rec[c].err = "RecordTooBig"
        /\ BatchErrOf(c) \notin {"nil", "none"}
        /\ result[c] = BatchErrSend(BatchErrOf(c))
        /\ ext[c].pc = "done"
        /\ 0 \in wrote[c]

\* a call whose record was rejected with RecordTooBig wrote the
\* primary record on the external path and returned success.
C11_Witness ==
    \E c \in Started :
        /\ rec[c].err = "RecordTooBig"
        /\ ext[c].pc = "done"
        /\ 0 \in wrote[c]
        /\ "external" \in DOMAIN kv[PrimaryKey(item[c].txHash)]
        /\ BlobKey(item[c]) \in blobs
        /\ result[c] = "ok"

\* C12: a call whose put to the blob store returned AlreadyExists (and no
\* store failure) goes on to write its records and returns as after a put
\* without error: success or TxExists, and success when it created the
\* primary record and BatchOperate returned no error for its batch.
C12_BlobAlreadyExistsIsSuccess ==
    \A c \in Started :
        ( /\ faults = 0
          /\ c \notin dead
          /\ blobErr[c] = "BlobAlreadyExists"
          /\ Settled(c) )
        => /\ seen[c] \cup wrote[c] # {}
           /\ result[c] \in {"ok", "TxExists"}
           /\ (0 \in wrote[c] /\ BatchErrOf(c) = "nil") => result[c] = "ok"

\* C12 witness: a call found its blob in the blob store, created the primary
\* record and returned success.
C12_Witness ==
    \E c \in Started :
        /\ blobErr[c] = "BlobAlreadyExists"
        /\ 0 \in wrote[c]
        /\ result[c] = "ok"

\* C13: a call whose put to the blob store failed (not AlreadyExists)
\* returns a storage error and has written no record.
C13_BlobFailureAborts ==
    \A c \in Started :
        (blobErr[c] = "Failed" /\ result[c] # "none")
        => /\ result[c] = "Storage"
           /\ wrote[c] = {}

\* C14: a primary record with external set has no inputs and no outputs bin,
\* a primary record without external has both, and a primary record of a
\* transaction of several records has external set.
C14_ExternalOrInline ==
    \A k \in DOMAIN kv :
        k[2] = 0
        => /\ "external" \in DOMAIN kv[k]
              => /\ kv[k].external = TRUE
                 /\ "inputs" \notin DOMAIN kv[k]
                 /\ "outputs" \notin DOMAIN kv[k]
           /\ "external" \notin DOMAIN kv[k]
              => /\ "inputs" \in DOMAIN kv[k]
                 /\ "outputs" \in DOMAIN kv[k]
           /\ kv[k].totalExtraRecs > 0 => "external" \in DOMAIN kv[k]

\* C14 witness: the primary record of a transaction of several records and
\* the primary record of a transaction stored inline both exist.
C14_Witness ==
    \E k1 \in DOMAIN kv, k2 \in DOMAIN kv :
        /\ k1[2] = 0
        /\ kv[k1].totalExtraRecs > 0
        /\ "external" \in DOMAIN kv[k1]
        /\ k2[2] = 0
        /\ "inputs" \in DOMAIN kv[k2]

\* C15: a Create of a transaction without outputs that reached
\* sendStoreBatch returns InvalidArgument, and no record and no blob of the
\* transaction is written by it.
C15_NoOutputsRejected ==
    \A c \in Started :
        ( /\ NumOutputs(item[c].tx) = 0
          /\ rec[c].op = "noop"
          /\ result[c] # "none" )
        => /\ result[c] = "InvalidArgument"
           /\ wrote[c] = {}
           /\ blobErr[c] = "none"

\* C16: every record created for an item with isCoinbase set carries
\* spendingHeight = block height + CoinbaseMaturity, and a record created
\* for any other item carries no spendingHeight; isCoinbase is the
\* IsCoinbase option when given and the transaction's own flag otherwise.
C16_CoinbaseSpendingHeight ==
    \A c \in Started :
        \A idx \in wrote[c] :
            LET r == kv[KeySource(item[c].txHash, idx)]
            IN  /\ r.isCoinbase = item[c].isCoinbase
                /\ item[c].isCoinbase
                   => /\ "spendingHeight" \in DOMAIN r
                      /\ r.spendingHeight = item[c].blockHeight + 100
                      /\ r.spendingHeight # item[c].blockHeight + 99
                /\ ~item[c].isCoinbase => "spendingHeight" \notin DOMAIN r

\* C16 witness: a transaction of several records that is not a coinbase
\* was created with the IsCoinbase option set, and each of its records has
\* the spending height.
C16_Witness ==
    \E c \in Started :
        /\ ~IsCoinbaseTx(item[c].tx)
        /\ item[c].isCoinbase
        /\ Cardinality(wrote[c]) > 1
        /\ 0 \in wrote[c]
        /\ \A idx \in wrote[c] :
              kv[KeySource(item[c].txHash, idx)].spendingHeight
                  = item[c].blockHeight + 100

\* C17: a primary record created with conflicting = true carries
\* deleteAtHeight = creation block height + retention, on every create path.
C17_ConflictingHasDeleteAtHeight ==
    \A c \in Started :
        (0 \in wrote[c] /\ item[c].conflicting)
        => /\ "deleteAtHeight" \in DOMAIN kv[PrimaryKey(item[c].txHash)]
           /\ kv[PrimaryKey(item[c].txHash)].deleteAtHeight
                  = item[c].blockHeight + BlockHeightRetention

\* the number of records of a transaction of n > 0 outputs: the least m
\* with m * utxoBatchSize >= n
NumRecords(n) == CHOOSE m \in 1 .. n : m * utxoBatchSize >= n
                                       /\ (m - 1) * utxoBatchSize < n

\* C18: record k of a transaction of n outputs exists only for
\* k < ceil(n / utxoBatchSize) and holds the entries of the outputs
\* k * utxoBatchSize .. min((k+1) * utxoBatchSize, n) - 1 in order; the
\* primary record counts ceil(n / utxoBatchSize) - 1 extra records; a call
\* that returned success left all these records.
C18_SplitByBatchSize ==
    \A c \in Started :
        LET t == item[c].tx
            h == item[c].txHash
            n == NumOutputs(t)
        IN  /\ \A idx \in wrote[c] :
                  LET r == kv[KeySource(h, idx)]
                  IN  /\ idx * utxoBatchSize < n
                      /\ Len(r.utxos) = Min(utxoBatchSize, n - idx * utxoBatchSize)
                      /\ \A p \in 1 .. Len(r.utxos) :
                            r.utxos[p] =
                               IF OutputIsNil(t, idx * utxoBatchSize + p - 1)
                               THEN NilUtxo
                               ELSE << UtxoHashId(t, h),
                                       idx * utxoBatchSize + p - 1 >>
                      /\ idx = 0 => r.totalExtraRecs = NumRecords(n) - 1
            /\ (result[c] = "ok" /\ faults = 0)
               => \A k \in 0 .. NumRecords(n) - 1 : Exists(KeySource(h, k))

\* C18 witness: a transaction of utxoBatchSize + 1 outputs was stored as
\* two records, the second holding one entry.
C18_Witness ==
    \E c \in Started :
        /\ NumOutputs(item[c].tx) = utxoBatchSize + 1
        /\ result[c] = "ok"
        /\ wrote[c] = {0, 1}
        /\ kv[PrimaryKey(item[c].txHash)].totalExtraRecs = 1
        /\ Len(kv[KeySource(item[c].txHash, 1)].utxos) = 1

\* the sum of recordUtxos over the records 0 .. k of a transaction
RECURSIVE SumRecordUtxos(_, _)
SumRecordUtxos(t, k) ==
    IF k < 0 THEN 0
    ELSE kv[KeySource(t, k)].recordUtxos + SumRecordUtxos(t, k - 1)

\* C19: for a transaction all of whose records exist, the sum of
\* recordUtxos over its records equals totalUtxos of its primary record.
C19_RecordUtxosSumToTotal ==
    \A k \in DOMAIN kv :
        ( /\ k[2] = 0
          /\ \A j \in 1 .. kv[k].totalExtraRecs : Exists(KeySource(k[1], j)) )
        => SumRecordUtxos(k[1], kv[k].totalExtraRecs) = kv[k].totalUtxos

\* the transaction of an item has to be stored externally: the setting asks
\* for it, or it is too large, or it has more outputs than fit one record
MustBeExternal(c) ==
    \/ externalizeAll
    \/ Oversize(item[c].tx)
    \/ NumOutputs(item[c].tx) > utxoBatchSize

\* C20: once the first loop of sendStoreBatch has handled an item whose
\* bins GetBinsToStore could compute: if the transaction has to be stored
\* externally, no inline write is in the batch and the primary record this
\* call creates has external set, with the blob in the blob store;
\* otherwise the item is in the batch as a write with its inputs and
\* outputs inline.
C20_OversizeDetectedBeforeBatch ==
    \A c \in Started :
        ( /\ rec[c].op # "none"
          /\ GetBinsToStore(item[c], IsExternal(item[c].tx)).err = "nil" )
        => /\ MustBeExternal(c)
              => /\ rec[c].op = "write" => "external" \in DOMAIN rec[c].bins
                 /\ 0 \in wrote[c]
                    => /\ "external" \in DOMAIN kv[PrimaryKey(item[c].txHash)]
                       /\ BlobKey(item[c]) \in blobs
           /\ ~MustBeExternal(c)
              => /\ rec[c].op = "write"
                 /\ "inputs" \in DOMAIN rec[c].bins
                 /\ "outputs" \in DOMAIN rec[c].bins

\* C20 witness: under ExternalizeAllTransactions a small transaction of one
\* record was created with external set.
C20_Witness ==
    \E c \in Started :
        /\ externalizeAll
        /\ ~Oversize(item[c].tx)
        /\ NumOutputs(item[c].tx) <= utxoBatchSize
        /\ 0 \in wrote[c]
        /\ "external" \in DOMAIN kv[PrimaryKey(item[c].txHash)]
        /\ result[c] = "ok"

\* C21: a primary record carries unminedSince, equal to the block height of
\* the Create, exactly when its blockIDs, blockHeights and subtreeIdxs are
\* empty; the three sequences have one entry per mined-block info given to
\* the Create, in order.
C21_UnminedSinceIffNotMined ==
    \A c \in Started :
        0 \in wrote[c]
        => LET r == kv[PrimaryKey(item[c].txHash)]
           IN  /\ "unminedSince" \in DOMAIN r
                  <=> (r.blockIDs = << >> /\ r.blockHeights = << >>
                       /\ r.subtreeIdxs = << >>)
               /\ "unminedSince" \in DOMAIN r
                  => r.unminedSince = item[c].blockHeight
               /\ \E m \in MinedBlockInfos :
                     /\ Len(r.blockIDs) = Len(m)
                     /\ Len(r.blockHeights) = Len(m)
                     /\ Len(r.subtreeIdxs) = Len(m)
                     /\ \A j \in 1 .. Len(m) :
                           /\ r.blockIDs[j] = m[j].BlockID
                           /\ r.blockHeights[j] = m[j].BlockHeight
                           /\ r.subtreeIdxs[j] = m[j].SubtreeIdx
                     /\ item[c].blockIDs = [j \in 1 .. Len(m) |-> m[j].BlockID]

\* C21 witness: a primary record created with two mined-block infos, and so
\* without unminedSince.
C21_Witness ==
    \E c \in Started :
        /\ 0 \in wrote[c]
        /\ Len(kv[PrimaryKey(item[c].txHash)].blockIDs) = 2
        /\ "unminedSince" \notin DOMAIN kv[PrimaryKey(item[c].txHash)]

\* C30: a Create whose context is cancelled, or whose deadline expires,
\* before the primary-record write leaves no observable state: it writes no
\* record afterwards; a cancellation after the primary write does not undo
\* that write.
C30_CancelledBeforeWriteLeavesNothing ==
    \A c \in Started :
        /\ cancelled[c] = "early" => wrote[c] = {}
        /\ cancelled[c] = "late" => Exists(PrimaryKey(item[c].txHash))

\* C33: on every external create path the blob (TX for a transaction with
\* inputs, OUTPUTS for a partial transaction) is put, successfully or with
\* AlreadyExists, before any record of the transaction is written: a
\* primary record with external set has its blob in the blob store, and a
\* call that created a record of an externally stored transaction had its
\* blob put accepted.
C33_BlobBeforeExternalRecord ==
    /\ \A k \in DOMAIN kv :
          (k[2] = 0 /\ "external" \in DOMAIN kv[k])
          => << k[1], IF HasInputs(k[1]) THEN "TX" ELSE "OUTPUTS" >> \in blobs
    /\ \A c \in Started :
          /\ (0 \in wrote[c]
                 /\ "external" \in DOMAIN kv[PrimaryKey(item[c].txHash)])
             => blobErr[c] \in {"nil", "BlobAlreadyExists"}
          /\ (wrote[c] \ {0} # {})
             => /\ blobErr[c] \in {"nil", "BlobAlreadyExists"}
                /\ BlobKey(item[c]) \in blobs

\* the primary record of a partial transaction stored externally exists,
\* created by a call whose put of the blob found the blob present
C33_Witness ==
    \E c \in Started :
        /\ ~HasInputs(item[c].tx)
        /\ blobErr[c] = "BlobAlreadyExists"
        /\ 0 \in wrote[c]
        /\ "external" \in DOMAIN kv[PrimaryKey(item[c].txHash)]

\* the bins every record of a transaction carries
CommonBinNames == {"conflicting", "locked", "isCoinbase", "spendingHeight"}

\* C34: after any interleaving of Create attempts for one transaction, with
\* the same or with different options, all existing records of the
\* transaction carry the same values of the common bins conflicting,
\* locked, is_coinbase and spending_height.
C34_CommonBinsAgree ==
    \A k1 \in DOMAIN kv, k2 \in DOMAIN kv :
        k1[1] = k2[1]
        => \A n \in CommonBinNames :
              /\ (n \in DOMAIN kv[k1]) = (n \in DOMAIN kv[k2])
              /\ n \in DOMAIN kv[k1] => kv[k1][n] = kv[k2][n]

\* C35: a Create with conflicting = true that returns an error leaves the
\* conflicting children of every parent as they were before the call: a
\* transaction is among the conflicting children of a parent only if a
\* conflicting Create of it succeeded or is still running; and a Create
\* whose parent update failed returns a Processing error without putting
\* its item to the batcher, so it writes no record and no blob.
C35_FailedCreateLeavesParents ==
    /\ \A p \in ParentIds :
          \A t \in conflictingChildren[p] :
              \E c \in Started :
                  /\ item[c].tx = t
                  /\ item[c].conflicting
                  /\ result[c] \in {"none", "ok"}
    /\ \A c \in Started :
          (result[c] = "Processing" /\ rec[c].op = "none")
          => /\ wrote[c] = {}
             /\ blobErr[c] = "none"
             /\ ext[c] = NoExt
             /\ \A p \in ParentIds :
                   item[c].tx \in conflictingChildren[p]
                   => \E d \in Started \ {c} :
                         item[d].tx = item[c].tx /\ item[d].conflicting

\* ------------------------------------------------------------------------
\* Properties of the catchup reputation records
\* ------------------------------------------------------------------------

\* the step is a call of a method of a reputation record
MethodStep == nEvents' = nEvents + 1

\* the step records a success: RecordSuccess or UpdateReputation(true, _)
SuccessStep ==
    /\ MethodStep
    /\ lastEvent'.op \in {"RecordSuccess", "UpdateReputation"}
    /\ lastEvent'.success

\* the step records a failure: RecordFailure or UpdateReputation(false, _)
FailureStep ==
    /\ MethodStep
    /\ lastEvent'.op \in {"RecordFailure", "UpdateReputation"}
    /\ ~lastEvent'.success

\* C22: the reputation score of every record stays within [0, 100] under
\* every sequence and interleaving of RecordSuccess, RecordFailure,
\* RecordMaliciousAttempt and UpdateReputation.
C22_ScoreWithinBounds ==
    \A o \in 1 .. Len(heap) :
        heap[o].ReputationScore >= 0 /\ heap[o].ReputationScore <= 100

\* C23: every recorded success, by RecordSuccess or by
\* UpdateReputation(true, _), raises the score by 10, capped at 100, and
\* resets consecutive_failures to 0.
C23_SuccessRaisesByTen ==
    [][SuccessStep =>
        LET o == lastEvent'.obj IN
        /\ heap'[o].ReputationScore = Min(heap[o].ReputationScore + 10, 100)
        /\ heap'[o].ConsecutiveFailures = 0]_vars

\* C24: every recorded failure, by RecordFailure or by
\* UpdateReputation(false, _), lowers the score by 2, floored at 0, and
\* increases consecutive_failures by exactly 1.
C24_FailureLowersByTwo ==
    [][FailureStep =>
        LET o == lastEvent'.obj IN
        /\ heap'[o].ReputationScore =
              (IF heap[o].ReputationScore - 2 < 0 THEN 0
               ELSE heap[o].ReputationScore - 2)
        /\ heap'[o].ConsecutiveFailures = heap[o].ConsecutiveFailures + 1]_vars

\* C25: immediately after a malicious event on a record its score is 0,
\* malicious_attempts has grown by 1, IsMalicious and IsBad are true and
\* IsTrusted is false; the request counters and consecutive_failures are
\* as they were.
C25_MaliciousEvent ==
    [][(MethodStep /\ lastEvent'.op = "RecordMaliciousAttempt") =>
        LET o == lastEvent'.obj IN
        /\ heap'[o].ReputationScore = 0
        /\ heap'[o].MaliciousAttempts = heap[o].MaliciousAttempts + 1
        /\ IsMalicious(heap'[o])
        /\ IsBad(heap'[o])
        /\ ~IsTrusted(heap'[o])
        /\ heap'[o].SuccessfulRequests = heap[o].SuccessfulRequests
        /\ heap'[o].FailedRequests = heap[o].FailedRequests
        /\ heap'[o].TotalRequests = heap[o].TotalRequests
        /\ heap'[o].ConsecutiveFailures = heap[o].ConsecutiveFailures]_vars

\* a malicious event has just hit a record that had successes and failures
C25_Witness ==
    /\ lastEvent.op = "RecordMaliciousAttempt"
    /\ heap[lastEvent.obj].SuccessfulRequests > 0
    /\ heap[lastEvent.obj].ConsecutiveFailures > 0
    /\ heap[lastEvent.obj].MaliciousAttempts = 1

\* the step is a successful response-time update
ResponseTimeStep ==
    /\ MethodStep
    /\ lastEvent'.op = "UpdateReputation"
    /\ lastEvent'.success

\* C26 as stated: on every successful response-time update the average
\* becomes (avg * n + t) / (n + 1), n being successful_requests at that
\* moment, for every prior state of avg and n.
C26_WeightedAverageAlways ==
    [][ResponseTimeStep =>
        LET o == lastEvent'.obj IN
        heap'[o].AverageResponseTime =
            GoDiv(heap[o].AverageResponseTime * heap[o].SuccessfulRequests
                    + lastEvent'.t,
                  heap[o].SuccessfulRequests + 1)]_vars

\* C26 amended: on every successful response-time update the average
\* becomes t when the previous average is 0, and (avg * n + t) / (n + 1) in
\* integer arithmetic otherwise, n being successful_requests at that moment.
C26_WeightedAverageUnlessZero ==
    [][ResponseTimeStep =>
        LET o == lastEvent'.obj IN
        heap'[o].AverageResponseTime =
            (IF heap[o].AverageResponseTime = 0 THEN lastEvent'.t
             ELSE GoDiv(heap[o].AverageResponseTime
                          * heap[o].SuccessfulRequests + lastEvent'.t,
                        heap[o].SuccessfulRequests + 1))]_vars

\* a successful update has just averaged a response time into an average
\* that was set
C26_Witness ==
    /\ lastEvent.op = "UpdateReputation"
    /\ lastEvent.success
    /\ heap[lastEvent.obj].AverageResponseTime \notin {0, lastEvent.t}

\* the records a non-nil registry has handed out
Registered == {h \in handed : h.recv = "cm"}

\* C27: GetOrCreatePeerMetrics is the only mutation of the registry and is
\* serialised: calls for the same peer id get the same record, there is
\* exactly one record per requested id, an entry is never replaced or
\* removed, and GetPeerMetrics never changes the registry.
C27_RegistrySerialised ==
    [][/\ \A p \in DOMAIN registry :
            p \in DOMAIN registry' /\ registry'[p] = registry[p]
       /\ \A h1, h2 \in Registered' :
            h1.peer = h2.peer => h1.obj = h2.obj
       /\ \A h \in Registered' :
            h.peer \in DOMAIN registry' /\ registry'[h.peer] = h.obj
       /\ \A o1, o2 \in 1 .. Len(heap') :
            (heap'[o1].PeerID # "" /\ heap'[o1].PeerID = heap'[o2].PeerID)
                => o1 = o2
       /\ registry' # registry =>
            \E th \in Threads :
                /\ threads[th].op = "GetOrCreatePeerMetrics"
                /\ threads'[th] # threads[th]
       /\ \A th \in Threads :
            (threads[th].op = "GetPeerMetrics" /\ threads'[th] # threads[th])
                => registry' = registry]_vars

\* two threads have asked the registry for the same peer
C27_Witness ==
    \E h1, h2 \in Registered :
        h1.th # h2.th /\ h1.peer = h2.peer /\ h1.obj = h2.obj

\* C28: every record that GetOrCreatePeerMetrics hands out for a peer it
\* did not know starts with score 50 and zero counters, on every receiver
\* the call can be made on.
C28_NewRecordStartsNeutral ==
    [][\A h \in handed' \ handed :
          h.obj \notin HandedObjs =>
              /\ heap'[h.obj].ReputationScore = 50
              /\ heap'[h.obj].SuccessfulRequests = 0
              /\ heap'[h.obj].FailedRequests = 0
              /\ heap'[h.obj].TotalRequests = 0
              /\ heap'[h.obj].MaliciousAttempts = 0
              /\ heap'[h.obj].ConsecutiveFailures = 0]_vars

\* C36: once a malicious attempt has been recorded for a peer, IsTrusted
\* is false for the peer in every later state, whatever number of
\* successes follows, because malicious_attempts never decreases; IsMalicious
\* and IsBad become false again once the score is back at 10 or more.
C36_NeverTrustedAgain ==
    [][\A o \in 1 .. Len(heap) :
          /\ heap'[o].MaliciousAttempts >= heap[o].MaliciousAttempts
          /\ heap[o].MaliciousAttempts > 0
             => /\ ~IsTrusted(heap[o])
                /\ ~IsTrusted(heap'[o])
                /\ IsMalicious(heap'[o]) = (heap'[o].ReputationScore < 10)
                /\ IsBad(heap'[o]) = (heap'[o].ReputationScore < 10)]_vars

\* after a malicious attempt the successes of a peer have brought its score
\* above 50: it is neither malicious nor bad, and not trusted
C36_Witness ==
    \E o \in 1 .. Len(heap) :
        /\ heap[o].MaliciousAttempts > 0
        /\ heap[o].ReputationScore > 50
        /\ ~IsMalicious(heap[o])
        /\ ~IsBad(heap[o])
        /\ ~IsTrusted(heap[o])

\* ------------------------------------------------------------------------
\* Properties of persistBlock
\* ------------------------------------------------------------------------

\* persistBlock has computed its concurrency
ConcurrencyComputed == pb.pc \in {"utxoset", "process", "write"}

\* C29: in all-in-one mode persistBlock works with half the configured
\* concurrency, by integer division, and never with less than 1; otherwise
\* it works with the configured concurrency unchanged.
C29_AllInOneHalvesConcurrency ==
    ConcurrencyComputed =>
        IF pb.allInOne
        THEN /\ pb.concurrency >= 1
             /\ \/ pb.configured < 2 /\ pb.concurrency = 1
                \/ 2 * pb.concurrency \in {pb.configured, pb.configured - 1}
             /\ pb.running <= pb.concurrency
        ELSE pb.concurrency = pb.configured

\* in all-in-one mode an odd configured concurrency is halved and that many
\* subtrees are being processed at once; more are waiting
C29_Witness ==
    /\ pb.allInOne
    /\ pb.configured = 5
    /\ pb.concurrency = 2
    /\ pb.running = 2
    /\ pb.started < pb.subtrees

\* ------------------------------------------------------------------------
\* Properties of the spend engine
\* ------------------------------------------------------------------------

\* the spend of a spender is one the record does not refuse: the expected
\* hash is the hash of the output, and the record is not locked,
\* conflicting, creating, frozen at the output or an immature coinbase
Spendable(sp) ==
    /\ spends[sp].hash = UtxoHash(spends[sp].output)
    /\ RecordRefusal(utxoRec, spends[sp].output, spends[sp].height) = "nil"

\* the outputs of the record that have been consumed
Consumed == {i \in SpendIndexes : utxoRec.utxos[i] = NullUtxo}

\* C31: of two concurrent spend calls on the same unspent output with the
\* same expected hash exactly one succeeds and the other returns
\* UtxoAlreadySpent; the output is consumed once and spent_utxos has grown
\* by exactly 1.
C31_ExactlyOneSpendWins ==
    \A i \in SpendIndexes :
        LET done == {sp \in Spenders : /\ spends[sp].pc = "done"
                                       /\ spends[sp].output = i
                                       /\ Spendable(sp)}
        IN  Cardinality(done) >= 2
            => /\ Cardinality({sp \in done : spends[sp].result = "ok"}) = 1
               /\ \A sp \in done :
                     spends[sp].result \in {"ok", "UtxoAlreadySpent"}
               /\ utxoRec.utxos[i] = NullUtxo
               /\ i \in Consumed
               /\ utxoRec.spentUtxos = Cardinality(Consumed)

\* two spenders have called spend on the same output of a matured coinbase
\* transaction and both have their result; the second one won
C31_Witness ==
    /\ spends[1].pc = "done"
    /\ spends[2].pc = "done"
    /\ spends[1].output = spends[2].output
    /\ Spendable(1)
    /\ Spendable(2)
    /\ spends[2].result = "ok"
    /\ utxoRec.isCoinbase

\* ------------------------------------------------------------------------
\* Properties of the cleanup service provider
\* ------------------------------------------------------------------------

\* C32: GetCleanupService returns neither a service nor an error when the
\* DAH cleaner is disabled; when the cleaner is enabled and the store has no
\* client it returns the error 'client is required' and no service; it never
\* returns both a service and an error.
C32_CleanupServiceOrError ==
    \A th \in Threads :
        cleanupCalls[th].pc = "done"
        => LET c  == cleanupCalls[th]
               st == cleanupStores[c.store]
           IN  /\ st.disabled => (c.service = "nil" /\ c.err = "nil")
               /\ (~st.disabled /\ ~st.client)
                     => (c.service = "nil" /\ c.err = "client is required")
               /\ ~(c.service # "nil" /\ c.err # "nil")

\* a call for a store whose cleaner is disabled returns neither a service
\* nor an error, and no call returns both a service and an error
CleanupDisabledOrNotBoth ==
    \A th \in Threads :
        cleanupCalls[th].pc = "done"
        => LET c  == cleanupCalls[th]
               st == cleanupStores[c.store]
           IN  /\ st.disabled => (c.service = "nil" /\ c.err = "nil")
               /\ ~(c.service # "nil" /\ c.err # "nil")

\* a call for a store without client finds the singleton empty and is
\* refused with 'client is required'
CleanupRefusedOnEmptySingleton ==
    [][\A th \in Threads :
          ( /\ cleanupCalls[th].pc = "locked"
            /\ cleanupCalls'[th].pc = "unlock"
            /\ cleanupServiceInstance = "nil"
            /\ ~cleanupStores[cleanupCalls[th].store].client )
          => /\ cleanupCalls'[th].service = "nil"
             /\ cleanupCalls'[th].err = "client is required"]_vars

\* a store without client was handed the service another store had made
CleanupServiceOfOtherStore ==
    \E th \in Threads :
        /\ cleanupCalls[th].pc = "done"
        /\ ~cleanupStores[cleanupCalls[th].store].disabled
        /\ ~cleanupStores[cleanupCalls[th].store].client
        /\ cleanupCalls[th].service = "service"
        /\ cleanupCalls[th].err = "nil"

\* C37: persistBlock writes the block file only after every subtree of the
\* block, or the coinbase transaction of a block without subtrees, has been
\* processed without error; when the processing of a subtree failed it
\* returns that error and no block file is written.
C37_BlockFileAfterSubtrees ==
    /\ (pb.pc = "write" \/ pb.written)
       => /\ ~pb.failed
          /\ pb.finished = pb.subtrees
          /\ pb.running = 0
          /\ pb.subtrees = 0 => pb.coinbase
    /\ (pb.pc = "done" /\ pb.failed)
       => /\ pb.err = "ProcessSubtree error"
          /\ ~pb.written

\* the block file of a block of several subtrees has been written
C37_Witness ==
    /\ pb.written
    /\ pb.subtrees = MaxSubtrees
    /\ pb.finished = MaxSubtrees
    /\ pb.concurrency = 2

\* persistBlock has returned the error of a subtree while the other
\* subtrees of the block were processed
C37_WitnessFailed ==
    /\ pb.pc = "done"
    /\ pb.failed
    /\ pb.subtrees > 1
    /\ ~pb.written

\* the blocks StoreBlock was called with
StoredSet == { storedBlocks[n] : n \in 1 .. Len(storedBlocks) }

\* C38: after any sequence of StoreBlock calls BestBlock is nil exactly
\* when no block was stored; otherwise it is a stored block whose height is
\* the greatest height of all blocks stored so far, and the hash of every
\* stored block has BlockExists true and is found by GetBlock.
C38_BestBlockIsHighest ==
    /\ (mock.BestBlock = NilBlock) <=> (storedBlocks = << >>)
    /\ (GetBestBlockHeader.err = "BlockNotFound") <=> (storedBlocks = << >>)
    /\ storedBlocks # << >>
       => /\ mock.BestBlock \in StoredSet
          /\ \A b \in StoredSet : b.height <= mock.BestBlock.height
          /\ GetBestBlockHeader.height = mock.BestBlock.height
    /\ \A b \in StoredSet :
          /\ GetBlockExists(b.hash)
          /\ GetBlock(b.hash).err = "nil"
          /\ GetBlock(b.hash).block.hash = b.hash
          /\ GetBlock(b.hash).block \in StoredSet

\* three blocks were stored, the highest of them neither first nor last,
\* and one hash was stored twice
C38_Witness ==
    /\ Len(storedBlocks) = 3
    /\ mock.BestBlock = storedBlocks[2]
    /\ storedBlocks[1].height < storedBlocks[2].height
    /\ storedBlocks[3].height < storedBlocks[2].height
    /\ storedBlocks[3].hash = storedBlocks[1].hash
    /\ storedBlocks[3].height # storedBlocks[1].height

\* the heights of a range in ascending order that hold a block
RECURSIVE HeightsHeld(_, _)
HeightsHeld(startHeight, endHeight) ==
    IF startHeight > endHeight THEN << >>
    ELSE LET rest == IF startHeight = endHeight THEN << >>
                     ELSE HeightsHeld(startHeight + 1, endHeight)
         IN  IF startHeight \in DOMAIN mock.BlockByHeight
             THEN << startHeight >> \o rest
             ELSE rest

\* a call that returns holds, in ascending order of height, the header of
\* the block BlockByHeight has at each height of the range, and two empty
\* lists for a reverse range
HeadersOfRange ==
    [][(hdrCall' # hdrCall /\ hdrCall'.pc = "done")
       => LET held == HeightsHeld(hdrCall'.startHeight, hdrCall'.endHeight)
          IN  /\ hdrCall'.metas = held
              /\ hdrCall'.headers =
                   [n \in 1 .. Len(held) |-> mock.BlockByHeight[held[n]].hash]
              /\ hdrCall'.startHeight > hdrCall'.endHeight
                 => hdrCall'.headers = << >> /\ hdrCall'.metas = << >>]_vars

\* every stored block with a height in the range has its header in the
\* lists of a call that returns (BlockByHeight keeps one block per height,
\* the one stored last)
HeadersOfStoredBlocks ==
    [][(hdrCall' # hdrCall /\ hdrCall'.pc = "done")
       => \A b \in StoredSet :
             (hdrCall'.startHeight <= b.height
              /\ b.height <= hdrCall'.endHeight)
             => \E n \in 1 .. Len(hdrCall'.headers) :
                   hdrCall'.headers[n] = b.hash]_vars

\* C39: GetBlockHeadersByHeight terminates for every pair of heights,
\* endHeight = MaxUint included: a call that has entered its loop returns
\* (or, as far as runs are followed, has gathered more headers than there
\* are blocks stored).
C39_HeadersCallTerminates ==
    (hdrCall.pc = "loop")
        ~> (hdrCall.pc = "done" \/ Len(hdrCall.headers) > MaxStores)

\* a call with endHeight below MaxUint that has entered its loop returns
HeadersCallTerminatesBelowMax ==
    (hdrCall.pc = "loop" /\ hdrCall.endHeight < MaxUint)
        ~> (hdrCall.pc = "done")

\* a call that returns has gathered at most one header per stored block
HeadersWithinStored ==
    hdrCall.pc = "done" => Len(hdrCall.headers) <= Len(storedBlocks)

\* a call with endHeight = MaxUint that has entered its loop never returns
HeadersCallToMaxNeverReturns ==
    [][(hdrCall.pc = "loop" /\ hdrCall.endHeight = MaxUint)
       => hdrCall'.pc = "loop"]_vars

====
